---- MODULE Spec2Model ----
(***************************************************************************)
(* Tiered anomaly classifier of the cybersecurity log analyzer.            *)
(*                                                                         *)
(*   backend    : src/backend/utils/aiAnalyzer.js  (analyzeLogEntry,       *)
(*                analyzeWithOpenAI, analyzeWithHuggingFace,               *)
(*                analyzeWithRules, parseAIResponse, analyzeBatch)         *)
(*   serverless : src/api/utils/aiAnalyzer.js      (analyzeLogs, ...)      *)
(*                                                                         *)
(* Scores and confidences are kept in hundredths (0.3 is 30, 0.95 is 95):  *)
(* on all 2^9 combinations of the rule engine's weights the IEEE-754 sums  *)
(* fall on the same side of the thresholds 0.4 and 0.7 as the exact sums,  *)
(* and differ from them by less than 1e-9.                                 *)
(*                                                                         *)
(* A text is a sequence of words. A regular expression or a substring      *)
(* search is modelled by what it finds in the lower-cased words: Contains  *)
(* gives, for each word, the keywords that occur in it as substrings.      *)
(***************************************************************************)
EXTENDS Integers, Sequences, FiniteSets, TLC

VARIABLES impl, useOpenAI, useHuggingFace,
          entry, context, pc, calls, sent, replyOpenAI, replyHF,
          out, thrown, totalScore, matchedPatterns,
          entries, results,
          handler, fileStatus, tasks, rows, response, txn, stored,
          file, format, lines, parsedEntries, ppc, parseOut,
          dateParser, tsArg, tsOut

configVars == <<impl, useOpenAI, useHuggingFace>>
callVars   == <<entry, context, pc, calls, sent, replyOpenAI, replyHF,
                out, thrown, totalScore, matchedPatterns>>
batchVars  == <<entries, results>>
uploadVars == <<handler, fileStatus, tasks, rows, response, txn, stored>>
parserVars == <<file, format, lines, parsedEntries, ppc, parseOut,
                dateParser, tsArg, tsOut>>
vars       == <<configVars, callVars, batchVars, uploadVars, parserVars>>

----------------------------------------------------------------------------
(* Bounds *)

MaxContext == 7
MaxBatch == 7

----------------------------------------------------------------------------
(* Texts *)

Words ==
    { "failed", "Failed", "login", "authentication", "BLOCK", "blocked", "deny",
      "dropped", "malware", "admin", "/admin", "root", "sql", "injection", "xss",
      "port", "scan", "suspicious", "error", "invalid",
      "user", "logout", "attempt", "access", "detected", "from", "account",
      "activity", "request", "GET", "/index.html", "200", "403" }

\* The keywords of the two rule engines that occur in a word, lower-cased.
KeywordsOfWord(word) ==
    CASE word = "failed"         -> {"failed"}
      [] word = "Failed"         -> {"failed"}
      [] word = "login"          -> {"login"}
      [] word = "authentication" -> {"authentication"}
      [] word = "BLOCK"          -> {"block"}
      [] word = "blocked"        -> {"block"}
      [] word = "deny"           -> {"deny"}
      [] word = "dropped"        -> {"drop"}
      [] word = "malware"        -> {"malware"}
      [] word = "admin"          -> {"admin"}
      [] word = "/admin"         -> {"admin"}
      [] word = "root"           -> {"root"}
      [] word = "sql"            -> {"sql"}
      [] word = "injection"      -> {"injection"}
      [] word = "xss"            -> {"xss"}
      [] word = "port"           -> {"port"}
      [] word = "scan"           -> {"scan"}
      [] word = "suspicious"     -> {"suspicious"}
      [] word = "error"          -> {"error"}
      [] word = "invalid"        -> {"invalid"}
      [] OTHER                   -> {}

ContainsTable == [w \in Words |-> KeywordsOfWord(w)]

Contains(word) == ContainsTable[word]

\* phrase (keywords separated by one blank) occurs in text at word i.
PhraseAt(text, i, phrase) ==
    /\ i + Len(phrase) - 1 <= Len(text)
    /\ \A j \in 1..Len(phrase) : phrase[j] \in Contains(text[i + j - 1])

\* RegExp.prototype.test for an alternation of phrases with the i flag; also
\* String.prototype.includes on the lower-cased text (one phrase).
Test(alternatives, text) ==
    \E a \in alternatives : \E i \in 1..Len(text) : PhraseAt(text, i, a)

----------------------------------------------------------------------------
(* Tier 3, backend: analyzeWithRules *)

Min(a, b) == IF a < b THEN a ELSE b

\* suspiciousPatterns: source, the alternatives of the pattern, weight.
suspiciousPatterns == <<
    [source |-> "failed login|authentication failed", weight |-> 30,
     alternatives |-> {<<"failed", "login">>, <<"authentication", "failed">>}],
    [source |-> "block|deny|drop", weight |-> 40,
     alternatives |-> {<<"block">>, <<"deny">>, <<"drop">>}],
    [source |-> "malware|virus|trojan", weight |-> 80,
     alternatives |-> {<<"malware">>, <<"virus">>, <<"trojan">>}],
    [source |-> "admin|root|privileged", weight |-> 30,
     alternatives |-> {<<"admin">>, <<"root">>, <<"privileged">>}],
    [source |-> "sql injection|xss|csrf", weight |-> 90,
     alternatives |-> {<<"sql", "injection">>, <<"xss">>, <<"csrf">>}],
    [source |-> "port scan|brute force", weight |-> 70,
     alternatives |-> {<<"port", "scan">>, <<"brute", "force">>}],
    [source |-> "suspicious|anomalous", weight |-> 60,
     alternatives |-> {<<"suspicious">>, <<"anomalous">>}] >>

maliciousIPs == {"203.0.113.45", "192.0.2.1"}

\* The condition of the loop body: the pattern is found in either field.
PatternHit(p, e) ==
    Test(p.alternatives, e.event_description) \/ Test(p.alternatives, e.raw_log_line)

PatternWeightPerField(p, e) ==
    (IF Test(p.alternatives, e.event_description) THEN p.weight ELSE 0)
    + (IF Test(p.alternatives, e.raw_log_line) THEN p.weight ELSE 0)

\* What one iteration of the loop adds to totalScore.
PatternWeight(p, e) == IF PatternHit(p, e) THEN p.weight ELSE 0

RECURSIVE ScanPatternsAssign(_, _, _)
ScanPatternsAssign(e, k, acc) ==
    IF k > Len(suspiciousPatterns) THEN acc
    ELSE LET p == suspiciousPatterns[k] IN
         ScanPatternsAssign(e, k + 1,
             IF PatternHit(p, e)
             THEN [totalScore |-> p.weight,
                   matchedPatterns |-> Append(acc.matchedPatterns, p.source)]
             ELSE acc)

\* for (const pattern of suspiciousPatterns): patterns k.. in order, acc the
\* locals totalScore and matchedPatterns.
RECURSIVE ScanPatterns(_, _, _)
ScanPatterns(e, k, acc) ==
    IF k > Len(suspiciousPatterns) THEN acc
    ELSE LET p == suspiciousPatterns[k] IN
         ScanPatterns(e, k + 1,
             IF PatternHit(p, e)
             THEN [totalScore |-> acc.totalScore + PatternWeight(p, e),
                   matchedPatterns |-> Append(acc.matchedPatterns, p.source)]
             ELSE acc)

\* context.filter(e => e.ip_address === entry.ip_address)
sameIPEvents(e, ctx) == SelectSeq(ctx, LAMBDA c : c.ip_address = e.ip_address)

RepeatedEventsAtSeven(e, ctx) == Len(sameIPEvents(e, ctx)) > 6

RepeatedEvents(e, ctx) == Len(sameIPEvents(e, ctx)) > 5

\* The locals totalScore and matchedPatterns when the status is decided.
RuleScore(e, ctx) ==
    LET a == ScanPatterns(e, 1, [totalScore |-> 0, matchedPatterns |-> <<>>])
        b == IF RepeatedEvents(e, ctx)
             THEN [totalScore |-> a.totalScore + 30,
                   matchedPatterns |-> Append(a.matchedPatterns, "repeated_events")]
             ELSE a
    IN  IF e.ip_address \in maliciousIPs
        THEN [totalScore |-> b.totalScore + 80,
              matchedPatterns |-> Append(b.matchedPatterns, "known_malicious_ip")]
        ELSE b

DecideInclusive(score) ==
    IF score >= 70
    THEN [status |-> "anomaly", confidence_score |-> Min(score, 95),
          threat_level |-> "high", recommended_action |-> "Investigate immediately"]
    ELSE IF score >= 40
    THEN [status |-> "suspicious", confidence_score |-> score,
          threat_level |-> "medium", recommended_action |-> "Monitor closely"]
    ELSE [status |-> "normal", confidence_score |-> 50,
          threat_level |-> "low", recommended_action |-> "Monitor"]

\* "Determine status based on score", on the defaults of the analysis object.
Decide(score) ==
    IF score > 70
    THEN [status |-> "anomaly", confidence_score |-> Min(score, 95),
          threat_level |-> "high", recommended_action |-> "Investigate immediately"]
    ELSE IF score > 40
    THEN [status |-> "suspicious", confidence_score |-> score,
          threat_level |-> "medium", recommended_action |-> "Monitor closely"]
    ELSE [status |-> "normal", confidence_score |-> 50,
          threat_level |-> "low", recommended_action |-> "Monitor"]

BackendRules(e, ctx) ==
    LET s == RuleScore(e, ctx)
        d == Decide(s.totalScore)
    IN  [status |-> d.status,
         confidence_score |-> d.confidence_score,
         explanation |->
             IF Len(s.matchedPatterns) > 0
             THEN <<"Rule-based analysis: Detected patterns:">> \o s.matchedPatterns
             ELSE <<"Rule-based analysis: No suspicious patterns detected">>,
         threat_level |-> d.threat_level,
         recommended_action |-> d.recommended_action]

----------------------------------------------------------------------------
(* Tier 3, serverless: analyzeWithRules *)

suspiciousIPs == {"192.168.1.100", "10.0.0.50"}

ServerlessAction(status) ==
    CASE status = "normal"     -> "Continue monitoring"
      [] status = "suspicious" -> "Investigate further and monitor closely"
      [] status = "anomaly"    -> "Immediate investigation required"
      [] OTHER                 -> "Continue monitoring"

\* The three checks in order, each overwriting what the one before it set.
ServerlessRules(e) ==
    LET d  == e.event_description
        s0 == [status |-> "normal", confidence_score |-> 60,
               explanation |-> <<"Rule-based analysis completed">>,
               threat_level |-> "low"]
        s1 == IF Test({<<"deny">>}, d) \/ Test({<<"block">>}, d) \/ Test({<<"failed">>}, d)
              THEN [status |-> "suspicious", confidence_score |-> 70,
                    explanation |-> <<"Access denied or blocked activity detected">>,
                    threat_level |-> "medium"]
              ELSE s0
        s2 == IF Test({<<"error">>}, d) \/ Test({<<"exception">>}, d) \/ Test({<<"invalid">>}, d)
              THEN [status |-> "anomaly", confidence_score |-> 80,
                    explanation |-> <<"Error or exception detected in log entry">>,
                    threat_level |-> "high"]
              ELSE s1
        s3 == IF e.ip_address \in suspiciousIPs
              THEN [status |-> "anomaly", confidence_score |-> 90,
                    explanation |-> <<"IP address matches known suspicious patterns">>,
                    threat_level |-> "critical"]
              ELSE s2
    IN  [status |-> s3.status,
         confidence_score |-> s3.confidence_score,
         explanation |-> s3.explanation,
         threat_level |-> s3.threat_level,
         recommended_action |-> ServerlessAction(s3.status)]

\* The rule engine of the implementation in use.
analyzeWithRules(e, ctx) ==
    IF impl = "backend" THEN BackendRules(e, ctx) ELSE ServerlessRules(e)

----------------------------------------------------------------------------
(* Remote replies *)

\* JSON objects a chat completion may carry: complete and in the documented
\* domains, with a zero confidence, partial, with none of the five fields,
\* outside the domains.
JsonObjects ==
    { [status |-> "suspicious", confidence_score |-> 85,
       explanation |-> "Unusual access pattern detected",
       threat_level |-> "medium", recommended_action |-> "Monitor this IP"],
      [status |-> "anomaly", confidence_score |-> 100,
       explanation |-> "Known attack signature",
       threat_level |-> "critical", recommended_action |-> "Block the source"],
      [status |-> "normal", confidence_score |-> 0,
       explanation |-> "Routine request",
       threat_level |-> "low", recommended_action |-> "None"],
      [status |-> "anomaly"],
      [confidence_score |-> 40, threat_level |-> "high"],
      [verdict |-> "fine"],
      [status |-> "malicious", confidence_score |-> 150,
       explanation |-> "Very bad",
       threat_level |-> "severe", recommended_action |-> "Panic"] }

\* The object of the prompt's example, used inside text replies.
ExampleObject ==
    [status |-> "suspicious", confidence_score |-> 85,
     explanation |-> "Unusual access pattern detected",
     threat_level |-> "medium", recommended_action |-> "Monitor this IP"]

OtherObject ==
    [status |-> "normal", confidence_score |-> 20,
     explanation |-> "Nothing to see",
     threat_level |-> "low", recommended_action |-> "Ignore"]

\* message.content when it is a string: json is what JSON.parse(content)
\* gives (<<>>: it throws, or gives null so that reading a field throws);
\* fenced and braces are what the two regular expressions of
\* parseAIResponse match and what JSON.parse makes of the match; words are
\* the keywords that occur in the lower-cased content.
Content(body, json, ff, fo, bf, bo, words) ==
    [kind |-> "content", body |-> body, json |-> json,
     fencedFound |-> ff, fencedObject |-> fo,
     bracesFound |-> bf, bracesObject |-> bo, words |-> words]

TextReplies ==
    { Content("null", <<>>, FALSE, <<>>, FALSE, <<>>, {}),
      Content("The entry looks routine.", <<>>, FALSE, <<>>, FALSE, <<>>, {}),
      Content("This looks suspicious.", <<>>, FALSE, <<>>, FALSE, <<>>, {"suspicious"}),
      Content("Anomaly of high severity.", <<>>, FALSE, <<>>, FALSE, <<>>,
              {"anomaly", "high"}),
      Content("Suspicious anomaly, critical.", <<>>, FALSE, <<>>, FALSE, <<>>,
              {"suspicious", "anomaly", "critical"}),
      Content("fenced json", <<>>, TRUE, <<ExampleObject>>, TRUE, <<ExampleObject>>,
              {"suspicious", "medium"}),
      Content("fenced garbage, anomaly", <<>>, TRUE, <<>>, TRUE, <<>>, {"anomaly"}),
      Content("prose around json", <<>>, FALSE, <<>>, TRUE, <<ExampleObject>>,
              {"suspicious", "medium"}),
      Content("json quoting a fenced block", <<>>, TRUE, <<OtherObject>>,
              TRUE, <<ExampleObject>>, {"suspicious", "medium"}),
      Content("json quoting fenced garbage", <<>>, TRUE, <<>>,
              TRUE, <<ExampleObject>>, {"suspicious", "medium"}) }

JsonReplies ==
    { Content("json", <<o>>, FALSE, <<>>, TRUE, <<o>>, {}) : o \in JsonObjects }

\* What the chat-completion call can end in: the request fails, the service
\* answers with an error status, the body has no choices, message.content is
\* null, is the empty string, or is a string.
OpenAIReplies ==
    { [kind |-> "network_error"], [kind |-> "http_error"], [kind |-> "bad_shape"],
      [kind |-> "null_content"], [kind |-> "empty_content"] }
    \cup JsonReplies \cup TextReplies

HFLabels == {"normal", "suspicious", "malicious", "error", "anomaly", "benign"}

HFScores == {0, 60, 61, 70, 71, 100, 150}

\* What the zero-shot call can end in: failure, error status, a body without
\* labels, or labels[0] and scores[0].
HFReplies ==
    { [kind |-> "network_error"], [kind |-> "http_error"], [kind |-> "bad_shape"] }
    \cup { [kind |-> "labels", label |-> l, score |-> sc] : l \in HFLabels, sc \in HFScores }

----------------------------------------------------------------------------
(* Tier 1: analyzeWithOpenAI *)

\* obj.name || default, for a string and for a number.
StrOr(obj, name, default) ==
    IF name \in DOMAIN obj /\ obj[name] # "" THEN obj[name] ELSE default

NumOr(obj, name, default) ==
    IF name \in DOMAIN obj /\ obj[name] # 0 THEN obj[name] ELSE default

\* The object built from a parsed reply.
FromParsed(obj, defaultAction) ==
    [status |-> StrOr(obj, "status", "normal"),
     confidence_score |-> NumOr(obj, "confidence_score", 50),
     explanation |-> <<StrOr(obj, "explanation", "AI analysis completed")>>,
     threat_level |-> StrOr(obj, "threat_level", "low"),
     recommended_action |-> StrOr(obj, "recommended_action", defaultAction)]

\* backend parseAIResponse: the fenced block, then the braces, then keywords.
parseAIResponse(r) ==
    IF r.fencedFound /\ r.fencedObject # <<>>
    THEN FromParsed(r.fencedObject[1], "Monitor")
    ELSE IF r.bracesFound /\ r.bracesObject # <<>>
    THEN FromParsed(r.bracesObject[1], "Monitor")
    ELSE IF "anomaly" \in r.words \/ "suspicious" \in r.words
    THEN [status |-> "anomaly", confidence_score |-> 70,
          explanation |-> <<r.body>>,
          threat_level |-> "medium", recommended_action |-> "Monitor"]
    ELSE [status |-> "normal", confidence_score |-> 50,
          explanation |-> <<r.body>>,
          threat_level |-> "low", recommended_action |-> "Monitor"]

\* serverless extractInfoFromText
extractInfoFromText(r) ==
    LET status == IF "suspicious" \in r.words THEN "suspicious"
                  ELSE IF "anomaly" \in r.words THEN "anomaly" ELSE "normal"
        threat == IF "critical" \in r.words THEN "critical"
                  ELSE IF "high" \in r.words THEN "high"
                  ELSE IF "medium" \in r.words THEN "medium" ELSE "low"
    IN  [status |-> status, confidence_score |-> 70,
         explanation |-> <<r.body>>,
         threat_level |-> threat,
         recommended_action |-> ServerlessAction(status)]

Threw == [ok |-> FALSE]
Returned(result) == [ok |-> TRUE, result |-> result]

\* The empty string as a text reply: nothing parses, nothing is found.
EmptyText == Content("", <<>>, FALSE, <<>>, FALSE, <<>>, {})

\* backend analyzeWithOpenAI after the request: returns or throws.
BackendOpenAI(r) ==
    CASE r.kind \in {"network_error", "http_error", "bad_shape", "null_content"} -> Threw
      [] r.kind = "empty_content" -> Returned(parseAIResponse(EmptyText))
      [] r.kind = "content" ->
            IF r.json # <<>> THEN Returned(FromParsed(r.json[1], "Monitor"))
            ELSE Returned(parseAIResponse(r))

\* serverless analyzeWithOpenAI after the request: returns or throws.
ServerlessOpenAI(r) ==
    CASE r.kind \in {"network_error", "http_error", "bad_shape",
                     "null_content", "empty_content"} -> Threw
      [] r.kind = "content" ->
            IF r.json # <<>> THEN Returned(FromParsed(r.json[1], "Continue monitoring"))
            ELSE Returned(extractInfoFromText(r))

analyzeWithOpenAI(r) == IF impl = "backend" THEN BackendOpenAI(r) ELSE ServerlessOpenAI(r)

----------------------------------------------------------------------------
(* Tier 2: analyzeWithHuggingFace *)

mapHuggingFaceLabel(label) ==
    CASE label = "normal"     -> "normal"
      [] label = "suspicious" -> "suspicious"
      [] label = "malicious"  -> "anomaly"
      [] label = "error"      -> "suspicious"
      [] OTHER                -> "normal"

getThreatLevel(label, confidence) ==
    IF label = "malicious" /\ confidence > 70 THEN "high"
    ELSE IF label = "suspicious" /\ confidence > 60 THEN "medium"
    ELSE "low"

getRecommendedAction(label) ==
    CASE label = "normal"     -> "Continue monitoring"
      [] label = "suspicious" -> "Monitor closely"
      [] label = "malicious"  -> "Investigate immediately"
      [] label = "error"      -> "Check system logs"
      [] OTHER                -> "Monitor"

mapStatusToThreatLevel(status) ==
    CASE status = "normal"     -> "low"
      [] status = "suspicious" -> "medium"
      [] status = "anomaly"    -> "high"
      [] OTHER                 -> "low"

\* backend: the request and the object built from labels[0] and scores[0];
\* a throw is the one the function's own try block catches.
BackendHuggingFace(r) ==
    IF r.kind # "labels" THEN Threw
    ELSE Returned([status |-> mapHuggingFaceLabel(r.label),
                   confidence_score |-> r.score,
                   explanation |-> <<"Classified as", r.label, ToString(r.score)>>,
                   threat_level |-> getThreatLevel(r.label, r.score),
                   recommended_action |-> getRecommendedAction(r.label)])

\* serverless: status is labels[0] || 'normal', confidence scores[0] || 0.5.
ServerlessHuggingFace(r) ==
    IF r.kind # "labels" THEN Threw
    ELSE LET status == IF r.label # "" THEN r.label ELSE "normal"
             confidence == IF r.score # 0 THEN r.score ELSE 50
         IN  Returned([status |-> status,
                       confidence_score |-> confidence,
                       explanation |-> <<"HuggingFace classification:", status,
                                         ToString(confidence)>>,
                       threat_level |-> mapStatusToThreatLevel(status),
                       recommended_action |-> ServerlessAction(status)])

analyzeWithHuggingFace(r) ==
    IF impl = "backend" THEN BackendHuggingFace(r) ELSE ServerlessHuggingFace(r)

----------------------------------------------------------------------------
(* Inputs *)

Entry(ip, description, raw) ==
    [timestamp |-> "2024-01-01T00:00:00.000Z", ip_address |-> ip,
     event_description |-> description, raw_log_line |-> raw,
     log_type |-> "generic"]

NoEntry == Entry("", <<>>, <<>>)

Benign == Entry("10.0.0.5", <<"user", "logout">>, <<"GET", "/index.html", "200">>)

SeqsUpTo(S, n) == UNION { [1..k -> S] : k \in 0..n }

\* Entries and contexts of the calls of analyzeLogEntry / analyzeLogs.
CallEntries ==
    { Benign,
      Entry("10.0.0.5", <<"failed", "login", "attempt">>, <<"failed", "login", "attempt">>),
      Entry("203.0.113.45", <<"sql", "injection", "detected", "from", "admin", "account">>,
            <<"GET", "/index.html", "200">>),
      Entry("192.168.1.100", <<"invalid", "request">>, <<"GET", "/admin", "403">>) }

CallContexts == { <<>>, [i \in 1..6 |-> Benign] }

\* Entries and contexts of the direct calls of analyzeWithRules.
Descriptions ==
    { <<"user", "logout">>,
      <<"failed", "login", "attempt">>,
      <<"login", "failed">>,
      <<"authentication", "failed">>,
      <<"BLOCK", "access">>,
      <<"malware", "detected">>,
      <<"admin", "login">>,
      <<"sql", "injection", "detected", "from", "admin", "account">>,
      <<"port", "scan">>,
      <<"suspicious", "activity">>,
      <<"Failed", "login", "blocked">>,
      <<"failed", "login", "admin">>,
      <<"dropped", "root">>,
      <<"failed", "login", "blocked", "malware", "root", "xss", "port", "scan",
        "suspicious">>,
      <<"invalid", "error">>,
      <<"deny", "error">> }

RawLines == { <<"GET", "/index.html", "200">>, <<"GET", "/admin", "403">> }

IPs == {"10.0.0.5", "203.0.113.45", "192.168.1.100"}

RuleEntries == { Entry(ip, d, r) : ip \in IPs, d \in Descriptions, r \in RawLines }

RuleContexts ==
    SeqsUpTo({Benign, Entry("203.0.113.45", <<"BLOCK", "access">>, <<"BLOCK", "malware">>)},
             MaxContext)

\* Entries of a batch.
BatchEntries ==
    { Benign, Entry("10.0.0.9", <<"BLOCK", "access">>, <<"GET", "/index.html", "200">>) }

----------------------------------------------------------------------------
(* The cascade: backend analyzeLogEntry, serverless analyzeLogs *)

FirstTierOpenAIOnly == IF useOpenAI \/ useHuggingFace THEN "openai" ELSE "rules"

FirstTierNoRules == IF useOpenAI THEN "openai" ELSE "huggingface"

\* The branch taken on entry.
FirstTier ==
    IF useOpenAI THEN "openai"
    ELSE IF useHuggingFace THEN "huggingface"
    ELSE "rules"

OnOpenAIFailurePropagates == "throw"

\* Where a throw of analyzeWithOpenAI lands: backend, the catch block of
\* analyzeLogEntry; serverless, the inner catch and then the next if.
OnOpenAIFailure ==
    IF impl = "backend" THEN "rules"
    ELSE IF useHuggingFace THEN "huggingface" ELSE "rules"

\* Where a failure of the zero-shot call lands: backend, the catch block of
\* analyzeWithHuggingFace; serverless, the inner catch and then the fallback.
OnHuggingFaceFailure == "rules"

\* Control enters `tier` for entry e and context ctx, cs the tiers invoked so
\* far: a remote tier sends its request and waits, the rule engine runs to its
\* result, "throw" is an exception that leaves the function.
Enter(tier, e, ctx, cs) ==
    /\ calls' = IF tier = "throw" THEN cs ELSE Append(cs, tier)
    /\ sent' = IF tier \in {"openai", "huggingface"} THEN sent \cup {tier} ELSE sent
    /\ pc' = IF tier \in {"openai", "huggingface"} THEN tier ELSE "done"
    /\ thrown' = (tier = "throw")
    /\ out' = IF tier = "rules" THEN <<analyzeWithRules(e, ctx)>> ELSE <<>>
    /\ totalScore' = IF tier = "rules" /\ impl = "backend"
                     THEN RuleScore(e, ctx).totalScore ELSE 0
    /\ matchedPatterns' = IF tier = "rules" /\ impl = "backend"
                          THEN RuleScore(e, ctx).matchedPatterns ELSE <<>>

\* analyzeLogEntry(e, ctx) / analyzeLogs(e) is called.
Call(e, ctx) ==
    /\ pc = "idle"
    /\ entry' = e
    /\ context' = ctx
    /\ replyOpenAI' = <<>>
    /\ replyHF' = <<>>
    /\ Enter(FirstTier, e, ctx, <<>>)
    /\ UNCHANGED <<configVars, uploadVars, parserVars, batchVars>>

\* The chat-completion request ends with r.
OpenAIResponds(r) ==
    /\ pc = "openai"
    /\ replyOpenAI' = <<r>>
    /\ LET o == analyzeWithOpenAI(r) IN
       IF o.ok
       THEN /\ out' = <<o.result>>
            /\ pc' = "done"
            /\ UNCHANGED <<calls, sent, thrown, totalScore, matchedPatterns>>
       ELSE Enter(OnOpenAIFailure, entry, context, calls)
    /\ UNCHANGED <<configVars, uploadVars, parserVars, batchVars, entry, context, replyHF>>

\* The zero-shot request ends with r.
HuggingFaceResponds(r) ==
    /\ pc = "huggingface"
    /\ replyHF' = <<r>>
    /\ LET o == analyzeWithHuggingFace(r) IN
       IF o.ok
       THEN /\ out' = <<o.result>>
            /\ pc' = "done"
            /\ UNCHANGED <<calls, sent, thrown, totalScore, matchedPatterns>>
       ELSE Enter(OnHuggingFaceFailure, entry, context, calls)
    /\ UNCHANGED <<configVars, uploadVars, parserVars, batchVars, entry, context, replyOpenAI>>

\* The caller has the result; the analyzer is ready for the next call.
Return ==
    /\ pc = "done"
    /\ pc' = "idle"
    /\ entry' = NoEntry
    /\ context' = <<>>
    /\ calls' = <<>>
    /\ out' = <<>>
    /\ replyOpenAI' = <<>>
    /\ replyHF' = <<>>
    /\ totalScore' = 0
    /\ matchedPatterns' = <<>>
    /\ UNCHANGED <<configVars, uploadVars, parserVars, batchVars, sent, thrown>>

\* No upload is being handled.
UploadIdle ==
    /\ handler = "idle"
    /\ fileStatus = "absent"
    /\ tasks = <<>>
    /\ rows = <<>>
    /\ response = 0
    /\ txn = {}
    /\ stored = "none"

\* No file is being parsed.
ParserIdle ==
    /\ file = [readable |-> TRUE, content |-> <<>>]
    /\ format = "auto"
    /\ lines = <<>>
    /\ parsedEntries = <<>>
    /\ ppc = "idle"
    /\ parseOut = [kind |-> "none"]
    /\ dateParser = "strict"
    /\ tsArg = [timestamp |-> "", format |-> "iso"]
    /\ tsOut = ""

\* new AIAnalyzer(): the two keys are read once.
InitAnalyzer ==
    /\ useOpenAI \in BOOLEAN
    /\ useHuggingFace \in BOOLEAN
    /\ entry = NoEntry
    /\ context = <<>>
    /\ pc = "idle"
    /\ calls = <<>>
    /\ sent = {}
    /\ replyOpenAI = <<>>
    /\ replyHF = <<>>
    /\ out = <<>>
    /\ thrown = FALSE
    /\ totalScore = 0
    /\ matchedPatterns = <<>>
    /\ entries = <<>>
    /\ results = <<>>
    /\ UploadIdle
    /\ ParserIdle

Init ==
    /\ impl \in {"backend", "serverless"}
    /\ InitAnalyzer

Next ==
    \/ \E e \in CallEntries, ctx \in CallContexts : Call(e, ctx)
    \/ \E r \in OpenAIReplies : OpenAIResponds(r)
    \/ \E r \in HFReplies : HuggingFaceResponds(r)
    \/ Return

Spec == Init /\ [][Next]_vars

----------------------------------------------------------------------------
(* The rule engine called directly *)

\* analyzeWithRules(entry, context) runs on the entry and context given.
DirectRules ==
    /\ pc = "idle"
    /\ Enter("rules", entry, context, <<>>)
    /\ UNCHANGED <<configVars, uploadVars, parserVars, batchVars, entry, context, replyOpenAI, replyHF>>

InitRules ==
    /\ impl \in {"backend", "serverless"}
    /\ useOpenAI = FALSE
    /\ useHuggingFace = FALSE
    /\ entry \in RuleEntries
    /\ context \in RuleContexts
    /\ pc = "idle"
    /\ calls = <<>>
    /\ sent = {}
    /\ replyOpenAI = <<>>
    /\ replyHF = <<>>
    /\ out = <<>>
    /\ thrown = FALSE
    /\ totalScore = 0
    /\ matchedPatterns = <<>>
    /\ entries = <<>>
    /\ results = <<>>
    /\ UploadIdle
    /\ ParserIdle

NextRules == DirectRules

SpecRules == InitRules /\ [][NextRules]_vars

----------------------------------------------------------------------------
(* backend analyzeBatch *)

MergeAnalysisOnly(e, analysis) == analysis

\* The raw line of the entry is not copied.
MergeWithoutRawLine(e, analysis) ==
    [f \in (DOMAIN e \ {"raw_log_line"}) \cup DOMAIN analysis |->
        IF f \in DOMAIN analysis THEN analysis[f] ELSE e[f]]

\* { ...entry, ...analysis }
Merge(e, analysis) ==
    [f \in DOMAIN e \cup DOMAIN analysis |->
        IF f \in DOMAIN analysis THEN analysis[f] ELSE e[f]]

BatchAnalyzeCountsItself(e) ==
    /\ pc = "idle"
    /\ Len(entries) < MaxBatch
    /\ entries' = Append(entries, e)
    /\ entry' = e
    /\ replyOpenAI' = <<>>
    /\ replyHF' = <<>>
    /\ context' = Append(context, e)
    /\ Enter(FirstTier, e, Append(context, e), <<>>)
    /\ UNCHANGED <<configVars, uploadVars, parserVars, results>>

\* The loop takes the next entry e of the input and awaits its analysis with
\* the context list as it is.
BatchAnalyze(e) ==
    /\ pc = "idle"
    /\ Len(entries) < MaxBatch
    /\ entries' = Append(entries, e)
    /\ entry' = e
    /\ replyOpenAI' = <<>>
    /\ replyHF' = <<>>
    /\ Enter(FirstTier, e, context, <<>>)
    /\ UNCHANGED <<configVars, uploadVars, parserVars, context, results>>

\* The analysis has returned: the merged entry is pushed to results and the
\* entry to the context.
BatchPush ==
    /\ pc = "done"
    /\ ~thrown
    /\ results' = Append(results, Merge(entry, out[1]))
    /\ context' = Append(context, entry)
    /\ pc' = "idle"
    /\ UNCHANGED <<configVars, uploadVars, parserVars, entries, entry, calls, sent, replyOpenAI, replyHF,
                   out, thrown, totalScore, matchedPatterns>>

\* The input is exhausted: results is returned.
BatchReturn ==
    /\ pc = "idle"
    /\ pc' = "returned"
    /\ UNCHANGED <<configVars, uploadVars, parserVars, batchVars, entry, context, calls, sent, replyOpenAI,
                   replyHF, out, thrown, totalScore, matchedPatterns>>

\* The replies a batch is run against: each kind of failure and one success.
BatchOpenAIReplies ==
    { [kind |-> "network_error"],
      Content("json", <<ExampleObject>>, FALSE, <<>>, TRUE, <<ExampleObject>>, {}) }

BatchHFReplies ==
    { [kind |-> "http_error"], [kind |-> "labels", label |-> "malicious", score |-> 71] }

InitBatch ==
    /\ impl = "backend"
    /\ InitAnalyzer

NextBatch ==
    \/ \E e \in BatchEntries : BatchAnalyze(e)
    \/ \E r \in BatchOpenAIReplies : OpenAIResponds(r)
    \/ \E r \in BatchHFReplies : HuggingFaceResponds(r)
    \/ BatchPush
    \/ BatchReturn

SpecBatch == InitBatch /\ [][NextBatch]_vars

\* Batches whose entries all come from one address: a routine request and a
\* blocked one.
OrderEntries ==
    { Benign, Entry("10.0.0.5", <<"BLOCK", "access">>, <<"GET", "/index.html", "200">>) }

NextOrder ==
    \/ \E e \in OrderEntries : BatchAnalyze(e)
    \/ \E r \in BatchOpenAIReplies : OpenAIResponds(r)
    \/ \E r \in BatchHFReplies : HuggingFaceResponds(r)
    \/ BatchPush
    \/ BatchReturn

SpecOrder == InitBatch /\ [][NextOrder]_vars

----------------------------------------------------------------------------
(* Properties *)

Fields == {"status", "confidence_score", "explanation", "threat_level",
           "recommended_action"}

Range(seq) == { seq[i] : i \in DOMAIN seq }

\* C1. Fallback completeness: under every key configuration and every outcome
\* of the Tier 1 and Tier 2 calls, analyzeLogEntry (backend) and analyzeLogs
\* (serverless) never throw, and what they return is one object holding the
\* five fields status, confidence_score, explanation, threat_level and
\* recommended_action.
C1_FallbackComplete ==
    /\ ~thrown
    /\ pc = "done" => Len(out) = 1 /\ DOMAIN out[1] = Fields

\* Both keys set, the chat completion answered with an error status, the
\* zero-shot body had no labels, and the call has returned the rule engine's
\* result.
C1_Witness ==
    /\ pc = "done"
    /\ useOpenAI /\ useHuggingFace
    /\ replyOpenAI = <<[kind |-> "http_error"]>>
    /\ replyHF = <<[kind |-> "bad_shape"]>>
    /\ calls = <<"openai", "huggingface", "rules">>
    /\ Len(out) = 1

\* C2. When the Tier 1 call has failed and the HuggingFace key is configured,
\* Tier 2 is attempted before the rule engine runs: the rule engine is
\* invoked only when the key is absent or after Tier 2 was invoked (and
\* failed) for this entry.
C2_Tier2BeforeRules ==
    \A i \in DOMAIN calls :
        calls[i] = "rules" =>
            \/ ~useHuggingFace
            \/ \E j \in 1..(i - 1) : calls[j] = "huggingface"

\* The tiers in cascade order, restricted to the configured ones.
ConfiguredTiers ==
    (IF useOpenAI THEN <<"openai">> ELSE <<>>)
    \o (IF useHuggingFace THEN <<"huggingface">> ELSE <<>>)
    \o <<"rules">>

\* C3. Each call returns exactly one result, produced by the first tier, in
\* the order Tier 1, Tier 2, Tier 3 restricted to the configured tiers, that
\* completes without error: the tiers invoked are the configured tiers in
\* order up to the one that returned, and none after it.
C3_FirstConfiguredTierWins ==
    pc = "done" =>
        /\ Len(out) = 1
        /\ Len(calls) <= Len(ConfiguredTiers)
        /\ calls = SubSeq(ConfiguredTiers, 1, Len(calls))

\* C4. A tier whose key is absent is never attempted: no request goes to the
\* OpenAI endpoint without the OpenAI key and none to the HuggingFace endpoint
\* without the HuggingFace key, whatever the other tier's call ends in.
C4_AbsentTierNeverAttempted ==
    /\ ~useOpenAI => "openai" \notin sent /\ pc # "openai"
    /\ ~useHuggingFace => "huggingface" \notin sent /\ pc # "huggingface"

\* Only the OpenAI key is set, the Tier 1 call failed, and the call returned
\* without a request to HuggingFace.
C4_Witness ==
    /\ pc = "done"
    /\ useOpenAI /\ ~useHuggingFace
    /\ calls = <<"openai", "rules">>
    /\ replyOpenAI = <<[kind |-> "network_error"]>>
    /\ sent = {"openai"}

\* C5. With both keys unset, analyzeLogEntry returns exactly what the rule
\* engine analyzeWithRules returns for the same entry and context, and sends
\* no request (the same holds of the serverless analyzeLogs and its engine).
C5_NoKeysIsRuleEngine ==
    (pc = "done" /\ ~useOpenAI /\ ~useHuggingFace) =>
        /\ out = <<analyzeWithRules(entry, context)>>
        /\ impl = "backend" => out = <<BackendRules(entry, context)>>
        /\ sent = {}

\* The backend without keys has analysed the sql-injection entry of a
\* denylisted address against a context of six entries.
C5_Witness ==
    /\ pc = "done"
    /\ impl = "backend"
    /\ ~useOpenAI /\ ~useHuggingFace
    /\ entry.ip_address = "203.0.113.45"
    /\ Len(context) = 6
    /\ Len(out) = 1 /\ out[1].status = "anomaly"

\* The rule engine has run on entry and context and has returned.
RulesRan == pc = "done" /\ calls # <<>> /\ calls[Len(calls)] = "rules"

\* C6. The backend rule engine's result is decided by totalScore alone:
\* above 0.7 anomaly, confidence min(totalScore, 0.95), high, "Investigate
\* immediately"; above 0.4 and at most 0.7 suspicious, confidence totalScore,
\* medium, "Monitor closely"; at most 0.4 the defaults normal, 0.5, low,
\* "Monitor". A lone failed-login match scores 0.3 and stays normal;
\* sql-injection plus admin scores 1.2 and is an anomaly of confidence 0.95.
C6_ThresholdsDecide ==
    (RulesRan /\ impl = "backend") =>
        LET r == out[1] IN
        /\ totalScore > 70 =>
              /\ r.status = "anomaly"
              /\ r.confidence_score = (IF totalScore < 95 THEN totalScore ELSE 95)
              /\ r.threat_level = "high"
              /\ r.recommended_action = "Investigate immediately"
        /\ (40 < totalScore /\ totalScore <= 70) =>
              /\ r.status = "suspicious"
              /\ r.confidence_score = totalScore
              /\ r.threat_level = "medium"
              /\ r.recommended_action = "Monitor closely"
        /\ totalScore <= 40 =>
              /\ r.status = "normal"
              /\ r.confidence_score = 50
              /\ r.threat_level = "low"
              /\ r.recommended_action = "Monitor"
        /\ matchedPatterns = <<"failed login|authentication failed">> =>
              totalScore = 30 /\ r.status = "normal"
        /\ matchedPatterns = <<"admin|root|privileged", "sql injection|xss|csrf">> =>
              /\ totalScore = 120
              /\ r.status = "anomaly" /\ r.confidence_score = 95
              /\ r.threat_level = "high"

\* "sql injection detected from admin account" from an unlisted address
\* without repetition: 0.9 + 0.3.
C6_Witness ==
    /\ RulesRan /\ impl = "backend"
    /\ entry.event_description = <<"sql", "injection", "detected", "from", "admin", "account">>
    /\ matchedPatterns = <<"admin|root|privileged", "sql injection|xss|csrf">>
    /\ totalScore = 120
    /\ out[1].confidence_score = 95

\* The patterns of the list, by position, found in either field of e.
Matched(e) ==
    { k \in 1..7 : \/ Test(suspiciousPatterns[k].alternatives, e.event_description)
                   \/ Test(suspiciousPatterns[k].alternatives, e.raw_log_line) }

\* Both fields of e contain one same pattern.
MatchedInBoth(e) ==
    \E k \in 1..7 : /\ Test(suspiciousPatterns[k].alternatives, e.event_description)
                    /\ Test(suspiciousPatterns[k].alternatives, e.raw_log_line)

SameIPCount(e, ctx) == Cardinality({ i \in DOMAIN ctx : ctx[i].ip_address = e.ip_address })

ListedWeight(k) == <<30, 40, 80, 30, 90, 70, 60>>[k]

RECURSIVE SumOfWeights(_)
SumOfWeights(S) ==
    IF S = {} THEN 0
    ELSE LET k == CHOOSE x \in S : TRUE IN ListedWeight(k) + SumOfWeights(S \ {k})

\* C7. totalScore is the sum of the weights 0.3, 0.4, 0.8, 0.3, 0.9, 0.7, 0.6
\* of the patterns found in event_description or raw_log_line, each counted
\* once, plus 0.3 exactly when more than 5 context entries have the entry's
\* ip_address, plus 0.8 exactly when the address is on the denylist.
C7_TotalScoreIsSum ==
    (RulesRan /\ impl = "backend") =>
        totalScore = SumOfWeights(Matched(entry))
                     + (IF SameIPCount(entry, context) > 5 THEN 30 ELSE 0)
                     + (IF entry.ip_address \in {"203.0.113.45", "192.0.2.1"}
                        THEN 80 ELSE 0)

\* A denylisted address seen six times before, "admin" in both fields:
\* 0.3 once, + 0.3 + 0.8.
C7_Witness ==
    /\ RulesRan /\ impl = "backend"
    /\ MatchedInBoth(entry)
    /\ entry.ip_address = "203.0.113.45"
    /\ SameIPCount(entry, context) = 6
    /\ totalScore = 140

\* C8 as stated: with five context entries of the entry's address (the entry
\* is the sixth from it) the rule engine's totalScore is at least 0.3.
C8_FiveInContextScores ==
    (RulesRan /\ SameIPCount(entry, context) >= 5) => totalScore >= 30

\* The last n entries of the input share one address.
RunOf(n) ==
    /\ Len(entries) >= n
    /\ \A i \in (Len(entries) - n + 1)..Len(entries) :
           entries[i].ip_address = entries[Len(entries)].ip_address

\* C8, amended. With six or more context entries of the entry's address the
\* rule engine's totalScore is at least 0.3 whatever the description, and in
\* analyzeBatch this holds for the seventh entry of a run of entries sharing
\* one address; with five or fewer the repetition rule adds nothing.
C8_SixInContextScores ==
    RulesRan =>
        /\ SameIPCount(entry, context) >= 6 => totalScore >= 30
        /\ RunOf(7) => totalScore >= 30
        /\ ("repeated_events" \in Range(matchedPatterns))
               <=> (SameIPCount(entry, context) >= 6)

\* The seventh of seven benign entries of one address, analysed by the rule
\* engine: 0.3 from the repetition rule alone.
C8_Witness ==
    /\ RulesRan
    /\ Len(entries) = 7
    /\ \A i \in 1..7 : entries[i] = Benign
    /\ matchedPatterns = <<"repeated_events">>
    /\ totalScore = 30

Rank(status) ==
    CASE status = "normal" -> 0 [] status = "suspicious" -> 1 [] status = "anomaly" -> 2

DescMatched(e) ==
    { k \in 1..7 : Test(suspiciousPatterns[k].alternatives, e.event_description) }

KeywordsIn(e) ==
    { w \in {"deny", "block", "failed", "error", "exception", "invalid"} :
          Test({<<w>>}, e.event_description) }

\* What each entry of RuleEntries matches.
MatchedOf == [e \in RuleEntries |-> Matched(e)]
DescMatchedOf == [e \in RuleEntries |-> DescMatched(e)]
KeywordsOf == [e \in RuleEntries |-> KeywordsIn(e)]

\* C9. Monotonicity: let e1 have the ip_address of the analysed entry and be
\* analysed with the same context. If the entry's description contains every
\* pattern e1 matches and at least one more, or e1 differs from the entry
\* only in a description that matches fewer patterns, then e1's totalScore is
\* not higher and its status not higher in normal < suspicious < anomaly.
\* For the serverless engine, which reads the description only, the same
\* holds of its keywords and its status.
C9_Monotone ==
    RulesRan =>
        LET dm == DescMatchedOf[entry]
            kw == KeywordsOf[entry]
        IN  \A e1 \in RuleEntries :
                e1.ip_address = entry.ip_address =>
                    IF impl = "backend"
                    THEN (\/ /\ MatchedOf[e1] \subseteq dm
                             /\ MatchedOf[e1] # dm
                          \/ /\ e1.raw_log_line = entry.raw_log_line
                             /\ DescMatchedOf[e1] \subseteq dm
                             /\ DescMatchedOf[e1] # dm)
                         => LET s1 == RuleScore(e1, context).totalScore IN
                            /\ s1 <= totalScore
                            /\ Rank(Decide(s1).status) <= Rank(out[1].status)
                    ELSE (KeywordsOf[e1] \subseteq kw /\ KeywordsOf[e1] # kw)
                         => Rank(ServerlessRules(e1).status) <= Rank(out[1].status)

\* "failed login blocked" against the raw line of an admin page: it scores
\* 1.0 where "failed login attempt" with the same raw line scores 0.6.
C9_Witness ==
    /\ RulesRan /\ impl = "backend"
    /\ entry.event_description = <<"Failed", "login", "blocked">>
    /\ entry.raw_log_line = <<"GET", "/admin", "403">>
    /\ entry.ip_address = "10.0.0.5"
    /\ context = <<>>
    /\ totalScore = 100
    /\ RuleScore(Entry("10.0.0.5", <<"failed", "login", "attempt">>,
                       <<"GET", "/admin", "403">>), context).totalScore = 60
    /\ out[1].status = "anomaly"

\* C10. Every result has status in {normal, suspicious, anomaly},
\* confidence_score in [0.0, 1.0] and threat_level in {low, medium, high,
\* critical}, whichever tier produced it and whatever the remote replies hold.
C10_ResultInDomain ==
    (pc = "done" /\ Len(out) = 1) =>
        /\ out[1].status \in {"normal", "suspicious", "anomaly"}
        /\ out[1].confidence_score \in 0..100
        /\ out[1].threat_level \in {"low", "medium", "high", "critical"}

----------------------------------------------------------------------------
(* analyzeBatch: outputs *)

\* The four fields of an analysis that are values of the same kind in every
\* tier.
Verdict(a) ==
    <<a.status, a.confidence_score, a.threat_level, a.recommended_action>>

\* Output k of the batch has every field of input k next to the five fields
\* of an analysis.
InputKept(k) ==
    /\ DOMAIN results[k] = DOMAIN entries[k] \cup Fields
    /\ \A f \in DOMAIN entries[k] \ Fields : results[k][f] = entries[k][f]

\* The state part of C11: the number of outputs; the output pushed last is
\* the input at the same position with the fields of the analysis that
\* analyzeLogEntry returned for it.
BatchOutputs ==
    /\ pc \in {"idle", "returned"} => Len(results) = Len(entries)
    /\ pc \in {"openai", "huggingface", "done"} => Len(results) = Len(entries) - 1
    /\ (pc = "idle" /\ results # <<>>) =>
           LET k == Len(results) IN
           /\ entry = entries[k]
           /\ InputKept(k)
           /\ \A f \in Fields : results[k][f] = out[1][f]

\* C11. analyzeBatch gives one output per input entry, in input order:
\* output k has every field of input k and the five fields of the analysis of
\* input k; nothing is dropped, duplicated or reordered, also when remote
\* calls fail. Every output is right when it is pushed and no step changes
\* an output or an input that is already there.
C11_BatchOneToOne ==
    /\ []BatchOutputs
    /\ [][/\ \A k \in DOMAIN results : k \in DOMAIN results' /\ results'[k] = results[k]
          /\ \A k \in DOMAIN entries : k \in DOMAIN entries' /\ entries'[k] = entries[k]]_vars

\* A batch of three returned by an analyzer with the OpenAI key: the first
\* entry was answered by the completion, the second, a different entry, by
\* the rule engine after the request failed.
C11_Witness ==
    /\ pc = "returned"
    /\ useOpenAI
    /\ Len(results) = 3
    /\ entries[1] # entries[2]
    /\ Verdict(results[1]) = Verdict(ExampleObject)
    /\ Verdict(results[2]) = Verdict(BackendRules(entries[2], <<entries[1]>>))
    /\ results[2].raw_log_line = entries[2].raw_log_line

----------------------------------------------------------------------------
(* analyzeBatch: the context *)

\* The inputs before the one under analysis that carry its address.
PriorSameIP ==
    Cardinality({ k \in 1..(Len(entries) - 1) : entries[k].ip_address = entry.ip_address })

\* C12. In analyzeBatch an entry is analysed with the inputs before it, in
\* input order, as its context: the first entry sees the empty context, and
\* an entry joins the context only after its own analysis has returned, so
\* the repetition rule counts the earlier inputs of the entry's address and
\* never the entry itself.
C12_ContextIsPrefix ==
    /\ pc \in {"openai", "huggingface", "done"} =>
          /\ entry = entries[Len(entries)]
          /\ context = SubSeq(entries, 1, Len(entries) - 1)
          /\ Len(entries) = 1 => context = <<>>
    /\ pc \in {"idle", "returned"} => context = entries
    /\ RulesRan =>
          (("repeated_events" \in Range(matchedPatterns)) <=> (PriorSameIP > 5))

\* Six routine requests and then a blocked one, all from one address, analysed
\* by the rule engine: with its six predecessors in the context the blocked
\* request scores 0.4 + 0.3 and is suspicious; put first in the batch, with
\* the empty context, the same entry scores 0.4 and is normal.
C12_Witness ==
    /\ RulesRan
    /\ Len(entries) = 7
    /\ \A k \in 1..6 : entries[k] = Benign
    /\ entry = Entry("10.0.0.5", <<"BLOCK", "access">>, <<"GET", "/index.html", "200">>)
    /\ totalScore = 70
    /\ out[1].status = "suspicious"
    /\ BackendRules(entry, <<>>).status = "normal"

----------------------------------------------------------------------------
(* The serverless upload handler: parsedLogs.map(async ...) and Promise.all *)

MaxUpload == 2

UploadEntries ==
    { Benign, Entry("192.168.1.100", <<"invalid", "request">>, <<"GET", "/admin", "403">>) }

UploadLists == SeqsUpTo(UploadEntries, MaxUpload)

\* The callback of map has called analyzeLogs(e) and control is in `tier`,
\* cs the tiers invoked before: a remote tier has its request in flight; the
\* rule engine has returned, and the continuation of the callback has
\* issued the INSERT of the entry.
TaskIn(tier, e, cs) ==
    IF tier \in {"openai", "huggingface"}
    THEN [pc |-> tier, calls |-> Append(cs, tier), out |-> <<>>]
    ELSE [pc |-> "insert", calls |-> Append(cs, "rules"), out |-> <<ServerlessRules(e)>>]

\* The analysis of a task has returned `analysis`: the INSERT is issued.
TaskAnalysed(t, analysis) ==
    [pc |-> "insert", calls |-> t.calls, out |-> <<analysis>>]

\* The values of the INSERT INTO log_entries.
Row(e, analysis) ==
    [timestamp |-> e.timestamp, ip_address |-> e.ip_address,
     event_description |-> e.event_description,
     status |-> analysis.status, confidence_score |-> analysis.confidence_score,
     explanation |-> analysis.explanation, threat_level |-> analysis.threat_level,
     recommended_action |-> analysis.recommended_action,
     raw_log_line |-> e.raw_log_line,
     log_type |-> IF e.log_type = "" THEN "generic" ELSE e.log_type]

\* One of the tasks is stored.
AnyStored(ts) == \E k \in DOMAIN ts : ts[k].pc = "stored"

\* The tasks none of whose INSERT has failed so far are all stored.
AllStored(ts) == \A k \in DOMAIN ts : ts[k].pc = "stored"

\* POST with a file whose parse gave es: an empty list is answered 400,
\* otherwise the INSERT INTO log_files is issued.
Upload(es) ==
    /\ handler = "idle"
    /\ entries' = es
    /\ IF es = <<>>
       THEN handler' = "responded" /\ response' = 400
       ELSE handler' = "file_insert" /\ response' = response
    /\ UNCHANGED <<configVars, callVars, parserVars, results, fileStatus, tasks, rows,
                   txn, stored>>

\* The INSERT INTO log_files ends. On success map calls the callback for every
\* entry in turn, each running to its first suspension, and Promise.all waits.
FileInserted(ok) ==
    /\ handler = "file_insert"
    /\ IF ok
       THEN /\ fileStatus' = "uploaded"
            /\ tasks' = [k \in DOMAIN entries |-> TaskIn(FirstTier, entries[k], <<>>)]
            /\ handler' = "analysing"
            /\ response' = response
       ELSE /\ handler' = "responded"
            /\ response' = 500
            /\ UNCHANGED <<fileStatus, tasks>>
    /\ UNCHANGED <<configVars, callVars, parserVars, batchVars, rows, txn, stored>>

\* The chat-completion request of task k ends with r.
TaskOpenAIResponds(k, r) ==
    /\ k \in DOMAIN tasks
    /\ tasks[k].pc = "openai"
    /\ LET o == ServerlessOpenAI(r) IN
       tasks' = [tasks EXCEPT ![k] =
                    IF o.ok THEN TaskAnalysed(@, o.result)
                    ELSE TaskIn(OnOpenAIFailure, entries[k], @.calls)]
    /\ UNCHANGED <<configVars, callVars, parserVars, batchVars,
                   handler, fileStatus, rows, response, txn, stored>>

\* The zero-shot request of task k ends with r.
TaskHuggingFaceResponds(k, r) ==
    /\ k \in DOMAIN tasks
    /\ tasks[k].pc = "huggingface"
    /\ LET o == ServerlessHuggingFace(r) IN
       tasks' = [tasks EXCEPT ![k] =
                    IF o.ok THEN TaskAnalysed(@, o.result)
                    ELSE TaskIn(OnHuggingFaceFailure, entries[k], @.calls)]
    /\ UNCHANGED <<configVars, callVars, parserVars, batchVars,
                   handler, fileStatus, rows, response, txn, stored>>

\* The INSERT of task k ends. A failure rejects Promise.all, and the handler,
\* if it is still waiting, answers 500 from its catch block; the success of
\* the last task resolves Promise.all, and the handler issues the UPDATE.
InsertDone(k, ok) ==
    /\ k \in DOMAIN tasks
    /\ tasks[k].pc = "insert"
    /\ tasks' = [tasks EXCEPT ![k].pc = IF ok THEN "stored" ELSE "failed"]
    /\ rows' = IF ok THEN Append(rows, Row(entries[k], tasks[k].out[1])) ELSE rows
    /\ IF handler = "analysing" /\ ~ok
       THEN handler' = "responded" /\ response' = 500
       ELSE IF handler = "analysing" /\ AllStored(tasks')
       THEN handler' = "updating" /\ response' = response
       ELSE UNCHANGED <<handler, response>>
    /\ UNCHANGED <<configVars, callVars, parserVars, batchVars, fileStatus, txn, stored>>

\* The UPDATE of log_files ends: 201 on success, 500 from the catch block.
UpdateDone(ok) ==
    /\ handler = "updating"
    /\ handler' = "responded"
    /\ fileStatus' = IF ok THEN "analyzed" ELSE fileStatus
    /\ response' = IF ok THEN 201 ELSE 500
    /\ UNCHANGED <<configVars, callVars, parserVars, batchVars, tasks, rows, txn, stored>>

InitUpload ==
    /\ impl = "serverless"
    /\ InitAnalyzer

NextUpload ==
    \/ \E es \in UploadLists : Upload(es)
    \/ \E ok \in BOOLEAN : FileInserted(ok)
    \/ \E k \in DOMAIN tasks, r \in BatchOpenAIReplies : TaskOpenAIResponds(k, r)
    \/ \E k \in DOMAIN tasks, r \in BatchHFReplies : TaskHuggingFaceResponds(k, r)
    \/ \E k \in DOMAIN tasks, ok \in BOOLEAN : InsertDone(k, ok)
    \/ \E ok \in BOOLEAN : UpdateDone(ok)

SpecUpload == InitUpload /\ [][NextUpload]_vars

\* The analyses of one upload that have a request outstanding.
InFlight == { k \in DOMAIN tasks : tasks[k].pc \in {"openai", "huggingface"} }

\* C13. The entries of one uploaded file are analysed one after the other:
\* at no time do two analyses of the same file have a request in flight.
C13_OneAnalysisInFlight == Cardinality(InFlight) <= 1

----------------------------------------------------------------------------
(* The delete handlers: DELETE /files/:fileId *)

\* fileStatus and rows are the committed log_files row and log_entries rows
\* of the file, txn the tables that the open transaction has deleted from,
\* stored the file in the uploads directory ("none": the serverless upload
\* keeps no file).

MaxStored == 2

\* The log_entries rows of a stored file.
StoredRows == SeqsUpTo({ Row(e, ServerlessRules(e)) : e \in UploadEntries }, MaxStored)

\* The request arrives and the SELECT of the user's file ends: an error is
\* answered 500 by the outer catch, no row 404; otherwise a client is asked
\* of the pool.
DeleteRequest(owned, ok) ==
    /\ handler = "idle"
    /\ IF ~ok THEN handler' = "responded" /\ response' = 500
       ELSE IF ~owned THEN handler' = "responded" /\ response' = 404
       ELSE handler' = "connect" /\ response' = response
    /\ UNCHANGED <<configVars, callVars, batchVars, parserVars, fileStatus, tasks, rows,
                   txn, stored>>

\* pool.connect(), BEGIN or one of the two DELETE statements ends. After an
\* error the catch block issues ROLLBACK (there is no transaction to roll
\* back when connect failed) and the outer catch answers 500. After the
\* second DELETE the backend goes on to the uploads directory, the
\* serverless handler to COMMIT.
Statement(ok) ==
    /\ handler \in {"connect", "begin", "delete_entries", "delete_file"}
    /\ IF ok
       THEN /\ handler' = CASE handler = "connect" -> "begin"
                            [] handler = "begin" -> "delete_entries"
                            [] handler = "delete_entries" -> "delete_file"
                            [] handler = "delete_file" ->
                                   IF impl = "backend" THEN "unlink" ELSE "commit"
            /\ txn' = CASE handler = "delete_entries" -> txn \cup {"log_entries"}
                        [] handler = "delete_file" -> txn \cup {"log_files"}
                        [] OTHER -> txn
            /\ response' = response
       ELSE /\ handler' = "responded"
            /\ txn' = {}
            /\ response' = 500
    /\ UNCHANGED <<configVars, callVars, batchVars, parserVars, fileStatus, tasks, rows,
                   stored>>

\* if (fs.existsSync(filePath)) fs.unlinkSync(filePath): an exception of
\* unlinkSync leaves the file, rolls back and is answered 500.
Unlink(ok) ==
    /\ handler = "unlink"
    /\ IF stored # "present"
       THEN handler' = "commit" /\ UNCHANGED <<stored, txn, response>>
       ELSE IF ok
       THEN handler' = "commit" /\ stored' = "removed" /\ UNCHANGED <<txn, response>>
       ELSE handler' = "responded" /\ txn' = {} /\ response' = 500 /\ stored' = stored
    /\ UNCHANGED <<configVars, callVars, batchVars, parserVars, fileStatus, tasks, rows>>

\* COMMIT ends: the deletions of the transaction take effect together and
\* the success is answered; after an error they are rolled back and the
\* outer catch answers 500.
Commit(ok) ==
    /\ handler = "commit"
    /\ handler' = "responded"
    /\ txn' = {}
    /\ IF ok
       THEN /\ rows' = IF "log_entries" \in txn THEN <<>> ELSE rows
            /\ fileStatus' = IF "log_files" \in txn THEN "absent" ELSE fileStatus
            /\ response' = 200
       ELSE /\ response' = 500
            /\ UNCHANGED <<rows, fileStatus>>
    /\ UNCHANGED <<configVars, callVars, batchVars, parserVars, tasks, stored>>

\* A file of the user with its entries is stored, by the backend with its
\* upload in the uploads directory; no request is in progress.
InitDelete ==
    /\ impl \in {"backend", "serverless"}
    /\ useOpenAI = FALSE
    /\ useHuggingFace = FALSE
    /\ entry = NoEntry
    /\ context = <<>>
    /\ pc = "idle"
    /\ calls = <<>>
    /\ sent = {}
    /\ replyOpenAI = <<>>
    /\ replyHF = <<>>
    /\ out = <<>>
    /\ thrown = FALSE
    /\ totalScore = 0
    /\ matchedPatterns = <<>>
    /\ entries = <<>>
    /\ results = <<>>
    /\ ParserIdle
    /\ handler = "idle"
    /\ fileStatus \in {"uploaded", "analyzed"}
    /\ tasks = <<>>
    /\ rows \in StoredRows
    /\ response = 0
    /\ txn = {}
    /\ stored = IF impl = "backend" THEN "present" ELSE "none"

NextDelete ==
    \/ \E owned \in BOOLEAN, ok \in BOOLEAN : DeleteRequest(owned, ok)
    \/ \E ok \in BOOLEAN : Statement(ok)
    \/ \E ok \in BOOLEAN : Unlink(ok)
    \/ \E ok \in BOOLEAN : Commit(ok)

SpecDelete == InitDelete /\ [][NextDelete]_vars

\* C25: a delete request for a file of the user is all or nothing. In no
\* state is there a log_files row whose stored file has been removed, or a
\* log_entries row without the log_files row; when the request has been
\* answered, either the answer is the success and the row, its entries and
\* the stored file are all gone, or it is an error and the row and the
\* stored file are both in place.
C25_DeleteAllOrNothing ==
    /\ ~(fileStatus # "absent" /\ stored = "removed")
    /\ ~(fileStatus = "absent" /\ rows # <<>>)
    /\ handler = "responded" =>
           \/ response = 200 /\ fileStatus = "absent" /\ rows = <<>> /\ stored # "present"
           \/ response \in {404, 500} /\ fileStatus # "absent" /\ stored # "removed"

----------------------------------------------------------------------------
(* LogParser: lines *)

\* Lines of log files. What the string operations and regular expressions of
\* the parser give on them is tabulated below, next to the expression.
Ln ==
    [ZLine |-> "2024-01-15T10:30:00Z,10.0.0.5,10.0.0.9,BLOCK,http://evil.test,malware,alice,policy",
     ZShort |-> "2024-01-15T10:31:00Z,10.0.0.5,10.0.0.9,ALLOW,http://ok.test",
     ZPlain |-> "a,b,c,d,e,f,g,h",
     ZEmpty |-> ",,,DENY,http://x.test,,,",
     ALine |-> "127.0.0.1 - - [10/Oct/2023:13:55:36 +0000] \"GET /admin HTTP/1.1\" 403 2326",
     NLine |->
         "192.168.1.1 - - [10/Oct/2023:13:55:37 +0000] \"GET / HTTP/1.1\" 200 612 \"-\" \"Mozilla/5.0\"",
     NBare |-> "10.1.1.1 GET /index.html HTTP/1.1 200",
     ABracket |-> "10.2.2.2 [note] restarted",
     WLine |-> "12/25/2023 10:30:45 AM Event ID: 4625 Source: Security",
     WSource |-> "Source: Application Error",
     LLine |-> "Dec 25 10:30:45 web01 sshd: Failed password for root",
     LPlain |-> "Dec 25 10:30:46 web01 rebooted",
     GLine |-> "application started",
     GTime |-> "2024-01-15 10:30:00 service up from 10.0.0.7",
     D1Line |-> "2024-01-01T00:00:00 backup started",
     D2Line |-> "2024-01-02T00:00:00 backup running",
     D5Line |-> "2024-01-05T00:00:00 backup finished",
     EmptyLine |-> "",
     Spaces |-> "   "]

\* line.trim() is the empty string.
IsBlank(line) == line \in {Ln.EmptyLine, Ln.Spaces}

\* line.split(',')
Split(line) ==
    CASE line = Ln.ZLine ->
             <<"2024-01-15T10:30:00Z", "10.0.0.5", "10.0.0.9", "BLOCK", "http://evil.test",
               "malware", "alice", "policy">>
      [] line = Ln.ZShort ->
             <<"2024-01-15T10:31:00Z", "10.0.0.5", "10.0.0.9", "ALLOW", "http://ok.test">>
      [] line = Ln.ZPlain -> <<"a", "b", "c", "d", "e", "f", "g", "h">>
      [] line = Ln.ZEmpty -> <<"", "", "", "DENY", "http://x.test", "", "", "">>
      [] OTHER -> <<line>>

\* parts[i], i counted from 0; "" stands for undefined and for the empty
\* string, which the code treats alike (both are falsy).
Part(parts, i) == IF i < Len(parts) THEN parts[i + 1] ELSE ""

\* s.startsWith('http')
StartsWithHttp(s) == s \in {"http://evil.test", "http://ok.test", "http://x.test"}

\* The ZScaler rule of detectLogFormat.
ZscalerRule(line) ==
    LET parts == Split(line) IN
    /\ Len(parts) >= 8
    /\ Part(parts, 3) # "" /\ Part(parts, 3) \in {"ALLOW", "BLOCK", "DENY"}
    /\ Part(parts, 4) # "" /\ StartsWithHttp(Part(parts, 4))

\* /^\d+\.\d+\.\d+\.\d+.*\[.*\]/
ApacheRule(line) == line \in {Ln.ALine, Ln.NLine, Ln.ABracket}

\* /^\d+\.\d+\.\d+\.\d+.*HTTP\/\d+\.\d+/
NginxRule(line) == line \in {Ln.ALine, Ln.NLine, Ln.NBare}

\* line.includes('Event ID') || line.includes('Source:')
WindowsRule(line) == line \in {Ln.WLine, Ln.WSource}

\* /^[A-Z][a-z]{2}\s+\d+\s+\d+:\d+:\d+/
LinuxRule(line) == line \in {Ln.LLine, Ln.LPlain}

\* The number of sample lines of detectLogFormat.
SampleSize == 5

\* lines.slice(0, n)
Slice(ls, n) == SubSeq(ls, 1, Min(n, Len(ls)))

\* The first sample line, whatever its format, decides.
detectLogFormatByLine(ls) ==
    IF Len(ls) = 0 THEN "generic"
    ELSE LET sampleLines == Slice(ls, SampleSize)
             Of(line) == IF ZscalerRule(line) THEN "zscaler"
                         ELSE IF ApacheRule(line) THEN "apache"
                         ELSE IF NginxRule(line) THEN "nginx"
                         ELSE IF WindowsRule(line) THEN "windows"
                         ELSE IF LinuxRule(line) THEN "linux"
                         ELSE "generic"
             hits == { k \in DOMAIN sampleLines : Of(sampleLines[k]) # "generic" }
         IN  IF hits = {} THEN "generic"
             ELSE Of(sampleLines[CHOOSE k \in hits : \A j \in hits : k <= j])

\* Every line of the file is a sample line.
detectLogFormatAllLines(ls) ==
    IF Len(ls) = 0 THEN "generic"
    ELSE IF \E k \in DOMAIN ls : ZscalerRule(ls[k]) THEN "zscaler"
    ELSE IF \E k \in DOMAIN ls : ApacheRule(ls[k]) THEN "apache"
    ELSE IF \E k \in DOMAIN ls : NginxRule(ls[k]) THEN "nginx"
    ELSE IF \E k \in DOMAIN ls : WindowsRule(ls[k]) THEN "windows"
    ELSE IF \E k \in DOMAIN ls : LinuxRule(ls[k]) THEN "linux"
    ELSE "generic"

\* detectLogFormat(lines)
detectLogFormat(ls) ==
    IF Len(ls) = 0 THEN "generic"
    ELSE LET sampleLines == Slice(ls, SampleSize) IN
         IF \E k \in DOMAIN sampleLines : ZscalerRule(sampleLines[k]) THEN "zscaler"
         ELSE IF \E k \in DOMAIN sampleLines : ApacheRule(sampleLines[k]) THEN "apache"
         ELSE IF \E k \in DOMAIN sampleLines : NginxRule(sampleLines[k]) THEN "nginx"
         ELSE IF \E k \in DOMAIN sampleLines : WindowsRule(sampleLines[k]) THEN "windows"
         ELSE IF \E k \in DOMAIN sampleLines : LinuxRule(sampleLines[k]) THEN "linux"
         ELSE "generic"

----------------------------------------------------------------------------
(* LogParser: dates *)

\* new Date().toISOString(): the current instant. The server's zone is UTC.
NowISO == "2026-11-02T12:00:00.000Z"

\* A Date whose time value is NaN.
InvalidDate == "Invalid Date"

\* The instants that occur, as toISOString() writes them, earliest first.
Instants ==
    <<"2001-12-25T10:30:45.000Z", "2001-12-25T10:30:46.000Z", "2023-10-10T13:55:36.000Z",
      "2023-10-10T13:55:37.000Z", "2023-12-25T10:30:45.000Z", "2024-01-01T00:00:00.000Z",
      "2024-01-02T00:00:00.000Z", "2024-01-05T00:00:00.000Z", "2024-01-15T10:30:00.000Z",
      "2024-01-15T10:31:00.000Z", "2026-11-02T12:00:00.000Z", "2026-12-25T10:30:45.000Z",
      "2026-12-25T10:30:46.000Z">>

\* Other texts in the ECMAScript date-time string format, with their instants.
StandardDates ==
    [s \in {"2024-01-15T10:30:00Z", "2024-01-15T10:30:00", "2024-01-15T10:30:00.000Z"}
        |-> "2024-01-15T10:30:00.000Z"]
    @@ [s \in {"2024-01-15T10:31:00Z", "2024-01-15T10:31:00.000Z"} |-> "2024-01-15T10:31:00.000Z"]
    @@ [s \in {"2024-01-01T00:00:00"} |-> "2024-01-01T00:00:00.000Z"]
    @@ [s \in {"2024-01-02T00:00:00"} |-> "2024-01-02T00:00:00.000Z"]
    @@ [s \in {"2024-01-05T00:00:00"} |-> "2024-01-05T00:00:00.000Z"]

\* Texts in other forms: whether Date.parse reads them, and as which instant,
\* is left to the implementation. These are the readings of a parser that
\* accepts them.
LenientDates ==
    [s \in {"2024-01-15 10:30:00"} |-> "2024-01-15T10:30:00.000Z"]
    @@ [s \in {"12/25/2023 10:30:45 AM"} |-> "2023-12-25T10:30:45.000Z"]
    @@ [s \in {"Dec 25 10:30:45 2026"} |-> "2026-12-25T10:30:45.000Z"]
    @@ [s \in {"Dec 25 10:30:46 2026"} |-> "2026-12-25T10:30:46.000Z"]
    @@ [s \in {"Dec 25 10:30:45"} |-> "2001-12-25T10:30:45.000Z"]
    @@ [s \in {"Dec 25 10:30:46"} |-> "2001-12-25T10:30:46.000Z"]
    @@ [s \in {"2023-Oct-10T13:55:36 +0000", "10/Oct/2023:13:55:36 +0000"}
          |-> "2023-10-10T13:55:36.000Z"]
    @@ [s \in {"2023-Oct-10T13:55:37 +0000", "10/Oct/2023:13:55:37 +0000"}
          |-> "2023-10-10T13:55:37.000Z"]

\* new Date(s)
NewDate(s) ==
    IF \E k \in DOMAIN Instants : Instants[k] = s THEN s
    ELSE IF s \in DOMAIN StandardDates THEN StandardDates[s]
    ELSE IF dateParser = "lenient" /\ s \in DOMAIN LenientDates THEN LenientDates[s]
    ELSE InvalidDate

\* date.toISOString(): a RangeError for an invalid date.
ToISOString(date) ==
    IF date = InvalidDate THEN [kind |-> "throw", message |-> "Invalid time value"]
    ELSE [kind |-> "return", value |-> date]

\* timestamp.replace(/(\d{2})\/(\w{3})\/(\d{4}):(\d{2}):(\d{2}):(\d{2})/, '$3-$2-$1T$4:$5:$6')
ApacheReplace(timestamp) ==
    CASE timestamp = "10/Oct/2023:13:55:36 +0000" -> "2023-Oct-10T13:55:36 +0000"
      [] timestamp = "10/Oct/2023:13:55:37 +0000" -> "2023-Oct-10T13:55:37 +0000"
      [] OTHER -> timestamp

\* `${timestamp} ${currentYear}`, the current year being 2026.
WithYear(timestamp) ==
    CASE timestamp = "Dec 25 10:30:45" -> "Dec 25 10:30:45 2026"
      [] timestamp = "Dec 25 10:30:46" -> "Dec 25 10:30:46 2026"
      [] timestamp = "2024-01-15T10:30:00Z" -> "2024-01-15T10:30:00Z 2026"
      [] timestamp = "2024-01-15T10:31:00Z" -> "2024-01-15T10:31:00Z 2026"
      [] timestamp = "2024-01-15T10:30:00" -> "2024-01-15T10:30:00 2026"
      [] timestamp = "2024-01-15 10:30:00" -> "2024-01-15 10:30:00 2026"
      [] timestamp = "12/25/2023 10:30:45 AM" -> "12/25/2023 10:30:45 AM 2026"
      [] timestamp = "10/Oct/2023:13:55:36 +0000" -> "10/Oct/2023:13:55:36 +0000 2026"
      [] timestamp = "10/Oct/2023:13:55:37 +0000" -> "10/Oct/2023:13:55:37 +0000 2026"
      [] timestamp = NowISO -> "2026-11-02T12:00:00.000Z 2026"
      [] timestamp = "a" -> "a 2026"
      [] timestamp = "" -> " 2026"

\* timestamp.includes('/')
HasSlash(timestamp) ==
    timestamp \in {"12/25/2023 10:30:45 AM", "10/Oct/2023:13:55:36 +0000",
                   "10/Oct/2023:13:55:37 +0000"}

\* The catch of parseTimestamp is missing: an invalid date is returned as it is.
parseTimestampNoCatch(timestamp, fmt) ==
    IF fmt \in {"apache", "nginx"} THEN NewDate(ApacheReplace(timestamp))
    ELSE IF fmt = "linux" THEN NewDate(WithYear(timestamp))
    ELSE NewDate(timestamp)

\* LogParser.parseTimestamp(timestamp, format) of the backend.
parseTimestamp(timestamp, fmt) ==
    LET r == IF fmt \in {"apache", "nginx"} THEN ToISOString(NewDate(ApacheReplace(timestamp)))
             ELSE IF fmt = "linux" THEN ToISOString(NewDate(WithYear(timestamp)))
             ELSE IF fmt = "windows" THEN ToISOString(NewDate(timestamp))
             ELSE ToISOString(NewDate(timestamp))
    IN  IF r.kind = "throw" THEN NowISO ELSE r.value

\* LogParser.parseTimestamp(timestamp) of the serverless handlers.
parseTimestampServerless(timestamp) ==
    IF HasSlash(timestamp) /\ NewDate(timestamp) # InvalidDate
    THEN ToISOString(NewDate(timestamp)).value
    ELSE IF NewDate(timestamp) # InvalidDate
    THEN ToISOString(NewDate(timestamp)).value
    ELSE NowISO

----------------------------------------------------------------------------
(* LogParser: the line parsers *)

\* What a line parser gives: null, an entry, or an exception.
Null == [kind |-> "null"]
Parsed(e) == [kind |-> "entry", entry |-> e]
Throws(m) == [kind |-> "throw", message |-> m]

\* s || otherwise, for a string s: the empty string is falsy.
Or(s, otherwise) == IF s = "" THEN otherwise ELSE s

\* /^(\S+) \S+ \S+ \[([^\]]+)\] "([^"]*)" (\d+) (\d+)/ : the captures, or <<>>.
ApacheMatch(line) ==
    CASE line = Ln.ALine ->
             <<[ip |-> "127.0.0.1", timestamp |-> "10/Oct/2023:13:55:36 +0000",
                request |-> "GET /admin HTTP/1.1", status |-> "403", size |-> "2326"]>>
      [] line = Ln.NLine ->
             <<[ip |-> "192.168.1.1", timestamp |-> "10/Oct/2023:13:55:37 +0000",
                request |-> "GET / HTTP/1.1", status |-> "200", size |-> "612"]>>
      [] OTHER -> <<>>

\* /^(\S+) \S+ \S+ \[([^\]]+)\] "([^"]*)" (\d+) (\d+) "([^"]*)" "([^"]*)"/
NginxMatch(line) ==
    CASE line = Ln.NLine ->
             <<[ip |-> "192.168.1.1", timestamp |-> "10/Oct/2023:13:55:37 +0000",
                request |-> "GET / HTTP/1.1", status |-> "200", size |-> "612",
                referer |-> "-", userAgent |-> "Mozilla/5.0"]>>
      [] OTHER -> <<>>

\* request.split(' ')
RequestSplit(request) ==
    CASE request = "GET /admin HTTP/1.1" -> <<"GET", "/admin", "HTTP/1.1">>
      [] request = "GET / HTTP/1.1" -> <<"GET", "/", "HTTP/1.1">>

\* parseInt(s)
ParseInt(s) ==
    CASE s = "403" -> 403 [] s = "2326" -> 2326 [] s = "200" -> 200 [] s = "612" -> 612

\* line.includes('Event ID:') and then /Event ID:\s*(\d+)/, /Source:\s*([^\s]+)/
\* and the time pattern of parseWindowsLog: the captures, or <<>> for a line
\* without 'Event ID:'.
WindowsMatch(line) ==
    CASE line = Ln.WLine ->
             <<[eventId |-> "4625", source |-> "Security", time |-> "12/25/2023 10:30:45 AM"]>>
      [] OTHER -> <<>>

\* /^([A-Z][a-z]{2}\s+\d+\s+\d+:\d+:\d+)\s+(\S+)\s+([^:]+):\s*(.*)/
LinuxMatch(line) ==
    CASE line = Ln.LLine ->
             <<[timestamp |-> "Dec 25 10:30:45", hostname |-> "web01", service |-> "sshd",
                message |-> "Failed password for root"]>>
      [] OTHER -> <<>>

\* /^([A-Z][a-z]{2}\s+\d+\s+\d+:\d+:\d+)\s+(\S+)\s+(.+)/ of the serverless parser.
LinuxMatchServerless(line) ==
    CASE line = Ln.LLine ->
             <<[timestamp |-> "Dec 25 10:30:45", hostname |-> "web01",
                message |-> "sshd: Failed password for root"]>>
      [] line = Ln.LPlain ->
             <<[timestamp |-> "Dec 25 10:30:46", hostname |-> "web01", message |-> "rebooted"]>>
      [] OTHER -> <<>>

\* The first IPv4 address of the line, or "": /\b(?:\d{1,3}\.){3}\d{1,3}\b/ of
\* the backend and /(\d+\.\d+\.\d+\.\d+)/ of the serverless parser find the
\* same text in the lines above.
IpMatch(line) ==
    CASE line \in {Ln.ZLine, Ln.ZShort} -> "10.0.0.5"
      [] line = Ln.ALine -> "127.0.0.1"
      [] line = Ln.NLine -> "192.168.1.1"
      [] line = Ln.NBare -> "10.1.1.1"
      [] line = Ln.ABracket -> "10.2.2.2"
      [] line = Ln.GTime -> "10.0.0.7"
      [] OTHER -> ""

\* /\d{4}-\d{2}-\d{2}[\sT]\d{2}:\d{2}:\d{2}/
TimestampMatch(line) ==
    CASE line = Ln.ZLine -> "2024-01-15T10:30:00"
      [] line = Ln.ZShort -> "2024-01-15T10:31:00"
      [] line = Ln.GTime -> "2024-01-15 10:30:00"
      [] line = Ln.D1Line -> "2024-01-01T00:00:00"
      [] line = Ln.D2Line -> "2024-01-02T00:00:00"
      [] line = Ln.D5Line -> "2024-01-05T00:00:00"
      [] OTHER -> ""

\* s.substring(0, 100) and s.length > 100: the lines above, and the messages
\* taken from them, have fewer than 100 characters.
Substring100(s) == s
LongerThan100(s) == FALSE

\* A line of eight fields is passed over as well.
parseZscalerLogNineFields(line, lineNumber) ==
    LET parts == Split(line) IN
    IF Len(parts) < 9 THEN Null
    ELSE Parsed([timestamp |-> parseTimestamp(Or(Part(parts, 0), NowISO), "iso"),
                 ip_address |-> Part(parts, 1),
                 event_description |->
                     <<"ZScaler:", Part(parts, 3), "-", Part(parts, 4),
                       "(Category:", Part(parts, 5), ")">>,
                 raw_log_line |-> line,
                 log_type |-> "zscaler",
                 line_number |-> lineNumber + 1])

\* parseZscalerLog(line, lineNumber)
parseZscalerLog(line, lineNumber) ==
    LET parts == Split(line) IN
    IF Len(parts) < 8 THEN Null
    ELSE LET timestamp == Or(Part(parts, 0), NowISO)
             sourceIP == Part(parts, 1)
             destinationIP == Part(parts, 2)
             action == Part(parts, 3)
             url == Part(parts, 4)
             category == Part(parts, 5)
             user == Part(parts, 6)
             reason == Part(parts, 7)
         IN  Parsed([timestamp |-> parseTimestamp(timestamp, "iso"),
                     ip_address |-> sourceIP,
                     destination_ip |-> destinationIP,
                     event_description |->
                         <<"ZScaler:", action, "-", url, "(Category:", category, ")">>,
                     user |-> user, url |-> url, category |-> category,
                     action |-> action, reason |-> reason,
                     raw_log_line |-> line,
                     log_type |-> "zscaler",
                     line_number |-> lineNumber + 1])

\* The request captured from the line is stored as the raw line.
parseApacheLogKeepsRequest(line, lineNumber) ==
    LET match == ApacheMatch(line) IN
    IF match = <<>> THEN Null
    ELSE LET m == match[1]
             request == RequestSplit(m.request)
         IN  Parsed([timestamp |-> parseTimestamp(m.timestamp, "apache"),
                     ip_address |-> m.ip,
                     event_description |->
                         <<"Apache:", request[1], request[2], "- Status:", m.status>>,
                     method |-> request[1], path |-> request[2], protocol |-> request[3],
                     status_code |-> ParseInt(m.status),
                     response_size |-> ParseInt(m.size),
                     raw_log_line |-> m.request,
                     log_type |-> "apache",
                     line_number |-> lineNumber + 1])

\* parseApacheLog(line, lineNumber)
parseApacheLog(line, lineNumber) ==
    LET match == ApacheMatch(line) IN
    IF match = <<>> THEN Null
    ELSE LET m == match[1]
             request == RequestSplit(m.request)
         IN  Parsed([timestamp |-> parseTimestamp(m.timestamp, "apache"),
                     ip_address |-> m.ip,
                     event_description |->
                         <<"Apache:", request[1], request[2], "- Status:", m.status>>,
                     method |-> request[1], path |-> request[2], protocol |-> request[3],
                     status_code |-> ParseInt(m.status),
                     response_size |-> ParseInt(m.size),
                     raw_log_line |-> line,
                     log_type |-> "apache",
                     line_number |-> lineNumber + 1])

\* parseNginxLog(line, lineNumber)
parseNginxLog(line, lineNumber) ==
    LET match == NginxMatch(line) IN
    IF match = <<>> THEN Null
    ELSE LET m == match[1]
             request == RequestSplit(m.request)
         IN  Parsed([timestamp |-> parseTimestamp(m.timestamp, "nginx"),
                     ip_address |-> m.ip,
                     event_description |->
                         <<"Nginx:", request[1], request[2], "- Status:", m.status>>,
                     method |-> request[1], path |-> request[2], protocol |-> request[3],
                     status_code |-> ParseInt(m.status),
                     response_size |-> ParseInt(m.size),
                     referer |-> m.referer,
                     user_agent |-> m.userAgent,
                     raw_log_line |-> line,
                     log_type |-> "nginx",
                     line_number |-> lineNumber + 1])

\* parseWindowsLog(line, lineNumber)
parseWindowsLog(line, lineNumber) ==
    IF WindowsMatch(line) # <<>>
    THEN LET eventId == WindowsMatch(line)[1].eventId
             source == WindowsMatch(line)[1].source
             timestamp == Or(WindowsMatch(line)[1].time, NowISO)
         IN  Parsed([timestamp |-> parseTimestamp(timestamp, "windows"),
                     ip_address |-> "localhost",
                     event_description |->
                         <<"Windows Event:", source, "- Event ID:", eventId>>,
                     event_id |-> eventId,
                     source |-> source,
                     raw_log_line |-> line,
                     log_type |-> "windows",
                     line_number |-> lineNumber + 1])
    ELSE Null

\* parseLinuxLog(line, lineNumber)
parseLinuxLog(line, lineNumber) ==
    LET match == LinuxMatch(line) IN
    IF match = <<>> THEN Null
    ELSE LET m == match[1] IN
         Parsed([timestamp |-> parseTimestamp(m.timestamp, "linux"),
                 ip_address |-> m.hostname,
                 event_description |-> <<"Linux:", m.service, "-", m.message>>,
                 hostname |-> m.hostname,
                 service |-> m.service,
                 message |-> m.message,
                 raw_log_line |-> line,
                 log_type |-> "linux",
                 line_number |-> lineNumber + 1])

\* parseGenericLog(line, lineNumber)
parseGenericLog(line, lineNumber) ==
    LET ip == Or(IpMatch(line), "unknown")
        timestamp == Or(TimestampMatch(line), NowISO)
    IN  Parsed([timestamp |-> parseTimestamp(timestamp, "iso"),
                ip_address |-> ip,
                event_description |-> <<"Generic Log:", Substring100(line), "...">>,
                raw_log_line |-> line,
                log_type |-> "generic",
                line_number |-> lineNumber + 1])

\* parseZscalerLog(line, index) of the serverless parser.
parseZscalerLogServerless(line) ==
    LET parts == Split(line) IN
    IF Len(parts) < 8 THEN Null
    ELSE LET timestamp == Or(Part(parts, 0), NowISO)
             ipAddress == Or(Part(parts, 1), "unknown")
             action == Or(Part(parts, 3), "unknown")
             url == Or(Part(parts, 4), "unknown")
             category == Or(Part(parts, 5), "unknown")
         IN  Parsed([timestamp |-> parseTimestampServerless(timestamp),
                     ip_address |-> ipAddress,
                     event_description |->
                         <<action, "access to", url, "(Category:", category, ")">>,
                     raw_log_line |-> line,
                     log_type |-> "zscaler"])

\* parseApacheLog(line, index) of the serverless parser.
parseApacheLogServerless(line) ==
    LET match == ApacheMatch(line) IN
    IF match = <<>> THEN Null
    ELSE LET m == match[1] IN
         Parsed([timestamp |-> parseTimestampServerless(m.timestamp),
                 ip_address |-> m.ip,
                 event_description |-> <<"HTTP", m.status, "-", m.request>>,
                 raw_log_line |-> line,
                 log_type |-> "apache"])

\* parseNginxLog(line, index) of the serverless parser: its pattern,
\* /^(\S+) - \S+ \[([^\]]+)\] "([^"]*)" (\d+) (\d+)/, matches the lines that the
\* apache pattern matches.
parseNginxLogServerless(line) ==
    LET match == ApacheMatch(line) IN
    IF match = <<>> THEN Null
    ELSE LET m == match[1] IN
         Parsed([timestamp |-> parseTimestampServerless(m.timestamp),
                 ip_address |-> m.ip,
                 event_description |-> <<"HTTP", m.status, "-", m.request>>,
                 raw_log_line |-> line,
                 log_type |-> "nginx"])

\* parseWindowsLog(line, index) of the serverless parser.
parseWindowsLogServerless(line) ==
    LET ipAddress == Or(IpMatch(line), "unknown") IN
    Parsed([timestamp |-> NowISO,
            ip_address |-> ipAddress,
            event_description |->
                IF LongerThan100(line) THEN <<Substring100(line), "...">>
                ELSE <<Substring100(line)>>,
            raw_log_line |-> line,
            log_type |-> "windows"])

\* parseLinuxLog(line, index) of the serverless parser.
parseLinuxLogServerless(line) ==
    LET match == LinuxMatchServerless(line) IN
    IF match = <<>> THEN Null
    ELSE LET m == match[1] IN
         Parsed([timestamp |-> parseTimestampServerless(m.timestamp),
                 ip_address |-> m.hostname,
                 event_description |->
                     IF LongerThan100(m.message) THEN <<Substring100(m.message), "...">>
                     ELSE <<Substring100(m.message)>>,
                 raw_log_line |-> line,
                 log_type |-> "linux"])

\* parseGenericLog(line, index) of the serverless parser.
parseGenericLogServerless(line) ==
    LET ipAddress == Or(IpMatch(line), "unknown") IN
    Parsed([timestamp |-> NowISO,
            ip_address |-> ipAddress,
            event_description |->
                IF LongerThan100(line) THEN <<Substring100(line), "...">>
                ELSE <<Substring100(line)>>,
            raw_log_line |-> line,
            log_type |-> "generic"])

\* The names of the parsers table.
Formats == {"zscaler", "apache", "nginx", "windows", "linux", "generic"}

\* Names that this.parsers[format] finds on the table's prototype: functions
\* of Object.prototype, truthy like the six parsers.
Inherited == {"constructor", "hasOwnProperty"}

\* parser(line, i) for parser = this.parsers[fmt]. The inherited functions are
\* called without a receiver: Object(line) wraps the line in a String object,
\* hasOwnProperty throws a TypeError.
Parser(fmt, line, i) ==
    CASE fmt = "zscaler" ->
             IF impl = "backend" THEN parseZscalerLog(line, i) ELSE parseZscalerLogServerless(line)
      [] fmt = "apache" ->
             IF impl = "backend" THEN parseApacheLog(line, i) ELSE parseApacheLogServerless(line)
      [] fmt = "nginx" ->
             IF impl = "backend" THEN parseNginxLog(line, i) ELSE parseNginxLogServerless(line)
      [] fmt = "windows" ->
             IF impl = "backend" THEN parseWindowsLog(line, i) ELSE parseWindowsLogServerless(line)
      [] fmt = "linux" ->
             IF impl = "backend" THEN parseLinuxLog(line, i) ELSE parseLinuxLogServerless(line)
      [] fmt = "generic" ->
             IF impl = "backend" THEN parseGenericLog(line, i) ELSE parseGenericLogServerless(line)
      [] fmt = "constructor" -> Parsed([wrapped |-> line])
      [] fmt = "hasOwnProperty" -> Throws("Cannot convert undefined or null to object")

----------------------------------------------------------------------------
(* LogParser: generateSummary *)

\* A property that an object does not have reads as undefined.
Field(e, f) == IF f \in DOMAIN e THEN e[f] ELSE "undefined"

\* String(date) is what Array.prototype.sort() without a comparator compares:
\* "Fri Dec 25 2026 10:30:45 GMT+0000 (Coordinated Universal Time)" for the
\* instant 2026-12-25T10:30:45.000Z, and "Invalid Date". These are the dates
\* in the order of those strings: by the name of the weekday, then by the name
\* of the month, then by the day, the year and the time.
DatesInStringOrder ==
    <<"2026-12-25T10:30:45.000Z", "2026-12-25T10:30:46.000Z", "2024-01-05T00:00:00.000Z",
      InvalidDate,
      "2023-12-25T10:30:45.000Z", "2024-01-01T00:00:00.000Z", "2024-01-15T10:30:00.000Z",
      "2024-01-15T10:31:00.000Z", "2026-11-02T12:00:00.000Z", "2001-12-25T10:30:45.000Z",
      "2001-12-25T10:30:46.000Z", "2024-01-02T00:00:00.000Z", "2023-10-10T13:55:36.000Z",
      "2023-10-10T13:55:37.000Z">>

\* dates.sort(): ascending in the strings of the dates, equal ones in their
\* given order.
RECURSIVE SortDates(_)
SortDates(dates) ==
    IF dates = <<>> THEN <<>>
    ELSE LET n == Len(dates)
             StringRank(date) ==
                 CHOOSE k \in DOMAIN DatesInStringOrder : DatesInStringOrder[k] = date
             sorted == SortDates(SubSeq(dates, 1, n - 1))
             k == Cardinality({ j \in DOMAIN sorted :
                                   StringRank(sorted[j]) <= StringRank(dates[n]) })
         IN  SubSeq(sorted, 1, k) \o <<dates[n]>> \o SubSeq(sorted, k + 1, Len(sorted))

\* The counting loops of generateSummary: how often each key occurs.
Tally(keys) ==
    [key \in Range(keys) |-> Cardinality({ k \in DOMAIN keys : keys[k] = key })]

\* eventKey.substring(0, 50) of a description: the descriptions made from the
\* lines above differ within their first 50 characters.
EventKey(description) == [first50 |-> description]

\* generateSummary(entries): the summary, or the exception it ends with.
generateSummary(es) ==
    LET timestamps == SortDates([k \in DOMAIN es |-> NewDate(Field(es[k], "timestamp"))])
        start == IF Len(timestamps) > 0 THEN ToISOString(timestamps[1])
                 ELSE [kind |-> "return", value |-> "null"]
        end == IF Len(timestamps) > 0 THEN ToISOString(timestamps[Len(timestamps)])
               ELSE [kind |-> "return", value |-> "null"]
        HasStatus(e) == "status_code" \in DOMAIN e /\ e.status_code # 0
        HasIp(e) == /\ "ip_address" \in DOMAIN e
                    /\ e.ip_address # "" /\ e.ip_address # "unknown"
        withStatus == SelectSeq(es, HasStatus)
        withIp == SelectSeq(es, HasIp)
    IN  IF start.kind = "throw" THEN start
        ELSE IF end.kind = "throw" THEN end
        ELSE IF \E k \in DOMAIN es : "event_description" \notin DOMAIN es[k]
        THEN Throws("Cannot read properties of undefined (reading 'substring')")
        ELSE [kind |-> "return",
              value |->
                  [total_entries |-> Len(es),
                   unique_ips |-> Cardinality({ Field(es[k], "ip_address") : k \in DOMAIN es }),
                   time_range |-> [start |-> start.value, end |-> end.value],
                   log_types |-> Tally([k \in DOMAIN es |-> Field(es[k], "log_type")]),
                   status_codes |-> Tally([k \in DOMAIN withStatus |-> withStatus[k].status_code]),
                   top_ips |-> Tally([k \in DOMAIN withIp |-> withIp[k].ip_address]),
                   top_events |->
                       Tally([k \in DOMAIN es |-> EventKey(es[k].event_description)])]]

----------------------------------------------------------------------------
(* LogParser: parseLogFile *)

\* content.split('\n').filter(line => line.trim())
NonBlank(content) == LET Kept(line) == ~IsBlank(line) IN SelectSeq(content, Kept)

\* The loop stops at the first line that gives no entry.
RECURSIVE ParseLinesUntilFailure(_, _, _)
ParseLinesUntilFailure(fmt, ls, i) ==
    IF i > Len(ls) THEN <<>>
    ELSE LET r == Parser(fmt, ls[i], i - 1) IN
         IF r.kind = "entry" THEN <<r.entry>> \o ParseLinesUntilFailure(fmt, ls, i + 1)
         ELSE <<>>

\* The loop of parseLogFile from the i-th line on: an entry is pushed, null
\* and an exception are passed over.
RECURSIVE ParseLines(_, _, _)
ParseLines(fmt, ls, i) ==
    IF i > Len(ls) THEN <<>>
    ELSE LET r == IF IsBlank(ls[i]) THEN Null ELSE Parser(fmt, ls[i], i - 1) IN
         (IF r.kind = "entry" THEN <<r.entry>> ELSE <<>>) \o ParseLines(fmt, ls, i + 1)

\* The error that the outer catch of parseLogFile throws.
Failed(inner) == [kind |-> "throw", message |-> <<"Failed to parse log file:", inner>>]

\* parseLogFile, from the call to the return or the exception.
ParseLogFile ==
    /\ ppc = "parse"
    /\ ppc' = "done"
    /\ IF ~file.readable
       THEN /\ parseOut' = Failed("ENOENT: no such file or directory")
            /\ UNCHANGED <<lines, format, parsedEntries>>
       ELSE LET ls == NonBlank(file.content)
                fmt == IF impl = "serverless" \/ format = "auto" THEN detectLogFormat(ls)
                       ELSE format
            IN  /\ lines' = ls
                /\ format' = fmt
                /\ IF fmt \notin Formats \cup Inherited
                   THEN /\ parsedEntries' = <<>>
                        /\ parseOut' = Failed(<<"Unsupported log format:", fmt>>)
                   ELSE LET es == ParseLines(fmt, ls, 1)
                            summary == generateSummary(es)
                        IN  /\ parsedEntries' = es
                            /\ parseOut' =
                                   IF impl = "serverless"
                                   THEN [kind |-> "return",
                                         value |-> [type |-> "array", items |-> es]]
                                   ELSE IF summary.kind = "throw"
                                   THEN Failed(summary.message)
                                   ELSE [kind |-> "return",
                                         value |-> [type |-> "object",
                                                    format |-> fmt,
                                                    totalLines |-> Len(ls),
                                                    parsedEntries |-> es,
                                                    summary |-> summary.value]]
    /\ UNCHANGED <<configVars, callVars, batchVars, uploadVars, file, dateParser, tsArg, tsOut>>

\* The analyzer is not in use.
AnalyzerIdle ==
    /\ useOpenAI = FALSE
    /\ useHuggingFace = FALSE
    /\ entry = NoEntry
    /\ context = <<>>
    /\ pc = "idle"
    /\ calls = <<>>
    /\ sent = {}
    /\ replyOpenAI = <<>>
    /\ replyHF = <<>>
    /\ out = <<>>
    /\ thrown = FALSE
    /\ totalScore = 0
    /\ matchedPatterns = <<>>
    /\ entries = <<>>
    /\ results = <<>>
    /\ UploadIdle

\* A call of parseLogFile on one of the given files with one of the given
\* format arguments. The serverless parser takes the content itself and no
\* format.
InitParser(files, formats) ==
    /\ impl \in {"backend", "serverless"}
    /\ AnalyzerIdle
    /\ dateParser \in {"strict", "lenient"}
    /\ file \in files
    /\ impl = "serverless" => file.readable
    /\ format \in formats
    /\ impl = "serverless" => format = "auto"
    /\ lines = <<>>
    /\ parsedEntries = <<>>
    /\ ppc = "parse"
    /\ parseOut = [kind |-> "none"]
    /\ tsArg = [timestamp |-> "", format |-> "iso"]
    /\ tsOut = ""

\* Files for the detection: short ones over lines of every format, and longer
\* ones, with more than SampleSize non-blank lines, over three lines.
MaxShort == 2
MaxLong == 7
DetectFiles ==
    LET ShortLines == {Ln.ZLine, Ln.ZEmpty, Ln.ABracket, Ln.NBare, Ln.WSource, Ln.LPlain,
                       Ln.GLine, Ln.Spaces}
        LongLines == {Ln.ALine, Ln.GLine, Ln.EmptyLine}
    IN  { [readable |-> TRUE, content |-> c] :
              c \in SeqsUpTo(ShortLines, MaxShort) \cup SeqsUpTo(LongLines, MaxLong) }

\* parseLogFile is called on one of these files, the format to be detected.
InitDetect == InitParser(DetectFiles, {"auto"})

SpecDetect == InitDetect /\ [][ParseLogFile]_vars

----------------------------------------------------------------------------
(* detectLogFormat: the priority of the formats *)

\* The formats with a detection rule, highest priority first.
Priority == <<"zscaler", "apache", "nginx", "windows", "linux">>

\* The line satisfies the detection rule of the format.
RuleMatches(fmt, line) ==
    CASE fmt = "zscaler" -> ZscalerRule(line)
      [] fmt = "apache" -> ApacheRule(line)
      [] fmt = "nginx" -> NginxRule(line)
      [] fmt = "windows" -> WindowsRule(line)
      [] fmt = "linux" -> LinuxRule(line)

\* The ranks in Priority of the formats whose rule some sample line satisfies.
MatchedRanks(sample) ==
    { p \in DOMAIN Priority : \E k \in DOMAIN sample : RuleMatches(Priority[p], sample[k]) }

\* C14: after parseLogFile has detected the format of a file, the format is
\* the one of highest priority, in the order zscaler, apache, nginx, windows,
\* linux, whose detection rule is satisfied by one of the first SampleSize
\* non-blank lines, wherever in the sample that line stands, and it is
\* generic when no sample line satisfies a rule.
C14_HighestPriorityWins ==
    ppc = "done" =>
        LET matched == MatchedRanks(SubSeq(lines, 1, Min(SampleSize, Len(lines)))) IN
        IF matched = {} THEN format = "generic"
        ELSE /\ format \in Formats
             /\ \E p \in matched : /\ format = Priority[p]
                                   /\ \A q \in matched : p <= q

\* A file whose first line satisfies the linux rule and whose second line the
\* zscaler rule is detected as zscaler.
C14_Witness ==
    /\ ppc = "done"
    /\ Len(lines) = 2
    /\ LinuxRule(lines[1]) /\ ~ZscalerRule(lines[1])
    /\ ZscalerRule(lines[2])
    /\ format = "zscaler"

----------------------------------------------------------------------------
(* detectLogFormat: the sample *)

\* Lines that may follow the sample of a file.
LaterLines == SeqsUpTo({Ln.ZLine, Ln.ALine, Ln.GLine}, 2)

\* C15: the format that parseLogFile detects is a function of the first
\* SampleSize non-blank lines of the file: it is the format of those lines
\* alone and of every file that continues them, whatever the later lines are;
\* a file without a non-blank line is generic; and the format is detected
\* once, so that every entry of the file comes from the parser of that format.
C15_FormatFromFirstFive ==
    ppc = "done" =>
        LET sample == SubSeq(lines, 1, Min(SampleSize, Len(lines))) IN
        /\ lines = NonBlank(file.content)
        /\ format = detectLogFormat(sample)
        /\ Len(lines) >= SampleSize =>
               \A later \in LaterLines : detectLogFormat(sample \o later) = format
        /\ lines = <<>> => format = "generic"
        /\ \A k \in DOMAIN parsedEntries : parsedEntries[k].log_type = format

\* A file with a blank line, five plain lines and then an access-log line is
\* generic, and its access-log line is parsed by the generic parser.
C15_Witness ==
    /\ ppc = "done"
    /\ Len(file.content) > Len(lines)
    /\ Len(lines) > SampleSize
    /\ \A k \in 1..SampleSize : lines[k] = Ln.GLine
    /\ lines[SampleSize + 1] = Ln.ALine
    /\ format = "generic"
    /\ Len(parsedEntries) = Len(lines)
    /\ parsedEntries[SampleSize + 1].log_type = "generic"

----------------------------------------------------------------------------
(* parseLogFile on files of mixed lines *)

\* Files of up to MaxLines lines over well-formed, malformed and blank lines
\* of every format, and a path that cannot be read.
MaxLines == 3
FileLines ==
    {Ln.ZLine, Ln.ZShort, Ln.ZPlain, Ln.ZEmpty, Ln.ALine, Ln.NLine, Ln.NBare, Ln.WLine, Ln.WSource,
     Ln.LLine, Ln.LPlain, Ln.GTime, Ln.Spaces}
ParseFiles ==
    { [readable |-> TRUE, content |-> c] : c \in SeqsUpTo(FileLines, MaxLines) }
        \cup {[readable |-> FALSE, content |-> <<>>]}

\* The format arguments of the backend's parseLogFile(filePath, format).
FormatArgs == {"auto", "nginx", "xml", "hasOwnProperty", "constructor"}

InitParse == InitParser(ParseFiles, FormatArgs)

SpecParse == InitParse /\ [][ParseLogFile]_vars

----------------------------------------------------------------------------
(* parseLogFile: lines that give no entry *)

\* The positions in lines of the lines that the parser of the format accepts.
Accepted(fmt, ls) == { k \in DOMAIN ls : Parser(fmt, ls[k], k - 1).kind = "entry" }

\* The k-th smallest element of a finite set of numbers.
Nth(S, k) == CHOOSE x \in S : Cardinality({ y \in S : y <= x }) = k

\* C16: when parseLogFile has gone through the lines of a readable file with
\* one of the six line parsers, or with a function that throws on every
\* line, it has returned, and parsedEntries holds one entry for each line
\* that the parser accepts, in the order of the lines: a line that the parser
\* rejects or throws on is passed over and the lines after it are still
\* parsed. There are never more entries than non-blank lines.
C16_BadLinesAreSkipped ==
    (ppc = "done" /\ file.readable /\ format \in Formats \cup {"hasOwnProperty"}) =>
        LET accepted == Accepted(format, lines) IN
        /\ parseOut.kind = "return"
        /\ Len(parsedEntries) = Cardinality(accepted)
        /\ \A k \in DOMAIN parsedEntries :
               parsedEntries[k] = Parser(format, lines[Nth(accepted, k)], Nth(accepted, k) - 1).entry
        /\ Len(parsedEntries) <= Len(lines)
        /\ impl = "backend" =>
               /\ parseOut.value.totalLines = Len(lines)
               /\ Len(parseOut.value.parsedEntries) <= parseOut.value.totalLines

\* A ZScaler file with a line of five fields, a blank line and a line of
\* eight fields: the last line gives the one entry.
C16_Witness ==
    /\ ppc = "done"
    /\ file.content = <<Ln.ZShort, Ln.Spaces, Ln.ZLine>>
    /\ format = "zscaler"
    /\ parseOut.kind = "return"
    /\ Len(parsedEntries) = 1
    /\ parsedEntries[1].raw_log_line = Ln.ZLine

----------------------------------------------------------------------------
(* parseLogFile: the raw line *)

\* a is b with some elements left out.
RECURSIVE IsSubsequence(_, _)
IsSubsequence(a, b) ==
    IF a = <<>> THEN TRUE
    ELSE IF b = <<>> THEN FALSE
    ELSE IF Head(a) = Head(b) THEN IsSubsequence(Tail(a), Tail(b))
    ELSE IsSubsequence(a, Tail(b))

\* The non-blank lines of the file, as the file has them.
SourceLines == SelectSeq(file.content, LAMBDA line : line \notin {Ln.EmptyLine, Ln.Spaces})

\* C17: in every result of parseLogFile, for each of the six formats, the
\* raw_log_line of an entry is the very line that the entry was parsed from
\* (for the backend the line that its line_number counts, for both parsers the
\* accepted line of the same rank), and the raw lines of the entries in
\* order are the non-blank lines of the file with some lines left out.
C17_RawLineIsSourceLine ==
    (ppc = "done" /\ parseOut.kind = "return" /\ format \in Formats) =>
        LET accepted == Accepted(format, SourceLines) IN
        /\ \A k \in DOMAIN parsedEntries :
               /\ k <= Cardinality(accepted)
               /\ parsedEntries[k].raw_log_line = SourceLines[Nth(accepted, k)]
               /\ impl = "backend" =>
                      parsedEntries[k].raw_log_line = SourceLines[parsedEntries[k].line_number]
        /\ IsSubsequence([k \in DOMAIN parsedEntries |-> parsedEntries[k].raw_log_line],
                         SourceLines)

\* An access log with a syslog line between two requests: the two entries
\* carry the two request lines.
C17_Witness ==
    /\ ppc = "done"
    /\ impl = "backend"
    /\ file.content = <<Ln.ALine, Ln.LLine, Ln.NLine>>
    /\ format = "apache"
    /\ parseOut.kind = "return"
    /\ Len(parseOut.value.parsedEntries) = 2
    /\ parseOut.value.parsedEntries[1].raw_log_line = Ln.ALine
    /\ parseOut.value.parsedEntries[2].raw_log_line = Ln.NLine

----------------------------------------------------------------------------
(* parseTimestamp called directly *)

\* parseTimestamp on the text and the format hint given; the serverless
\* parser takes no hint.
ParseTimestamp ==
    /\ ppc = "timestamp"
    /\ ppc' = "done"
    /\ tsOut' = IF impl = "backend" THEN parseTimestamp(tsArg.timestamp, tsArg.format)
                ELSE parseTimestampServerless(tsArg.timestamp)
    /\ UNCHANGED <<configVars, callVars, batchVars, uploadVars,
                   file, format, lines, parsedEntries, parseOut, dateParser, tsArg>>

\* Files of up to MaxStamped lines, for the timestamps of their entries.
MaxStamped == 1
StampedFiles ==
    { [readable |-> TRUE, content |-> c] : c \in SeqsUpTo(FileLines \cup {Ln.ZEmpty}, MaxStamped) }

\* Either parseTimestamp is called on a text with a format hint, or
\* parseLogFile on a file.
InitTimestamp ==
    LET TimestampStrings ==
            {"2024-01-15T10:30:00Z", "2024-01-15T10:31:00Z", "2024-01-15T10:30:00",
             "2024-01-15 10:30:00", "12/25/2023 10:30:45 AM", "Dec 25 10:30:45",
             "Dec 25 10:30:46", "10/Oct/2023:13:55:36 +0000", "10/Oct/2023:13:55:37 +0000",
             NowISO, "a", ""}
        FormatHints == {"iso", "apache", "nginx", "linux", "windows", "syslog"}
    IN
    \/ /\ impl \in {"backend", "serverless"}
       /\ AnalyzerIdle
       /\ dateParser \in {"strict", "lenient"}
       /\ tsArg \in [timestamp : TimestampStrings, format : FormatHints]
       /\ tsOut = ""
       /\ ppc = "timestamp"
       /\ file = [readable |-> TRUE, content |-> <<>>]
       /\ format = "auto"
       /\ lines = <<>>
       /\ parsedEntries = <<>>
       /\ parseOut = [kind |-> "none"]
    \/ InitParser(StampedFiles, Formats \cup {"auto"})

SpecTimestamp == InitTimestamp /\ [][ParseTimestamp \/ ParseLogFile]_vars

\* The date that parseTimestamp makes of the text before it writes it out.
DateRead ==
    IF impl = "serverless" THEN NewDate(tsArg.timestamp)
    ELSE IF tsArg.format \in {"apache", "nginx"} THEN NewDate(ApacheReplace(tsArg.timestamp))
    ELSE IF tsArg.format = "linux" THEN NewDate(WithYear(tsArg.timestamp))
    ELSE NewDate(tsArg.timestamp)

\* The text is an instant as toISOString() writes it.
IsInstant(s) == \E k \in DOMAIN Instants : Instants[k] = s

\* C18: for every text and every format hint, parseTimestamp returns an
\* instant in ISO-8601 form: the instant of the date when the text can be
\* read as a date, the current instant when it cannot. Every entry that
\* parseLogFile returns has such an instant as its timestamp.
C18_TimestampAlwaysValid ==
    /\ (ppc = "done" /\ parseOut.kind = "none") =>
           /\ IsInstant(tsOut)
           /\ DateRead # InvalidDate => tsOut = DateRead
           /\ DateRead = InvalidDate => tsOut = NowISO
    /\ (ppc = "done" /\ parseOut.kind = "return") =>
           \A k \in DOMAIN parsedEntries :
               /\ "timestamp" \in DOMAIN parsedEntries[k]
               /\ IsInstant(parsedEntries[k].timestamp)

\* The backend is given a text that is no date: the result is the current
\* instant.
C18_Witness ==
    /\ ppc = "done"
    /\ impl = "backend"
    /\ tsArg.timestamp = "a"
    /\ tsArg.format = "apache"
    /\ tsOut = NowISO

----------------------------------------------------------------------------
(* parseLogFile: error or complete result *)

\* The value is a result object with the four fields.
CompleteResult(value) ==
    /\ value.type = "object"
    /\ {"format", "totalLines", "parsedEntries", "summary"} \subseteq DOMAIN value

\* C19: when the file cannot be read or the format names none of the six
\* line parsers, parseLogFile throws one error whose message begins with
\* 'Failed to parse log file:' and, for the format, names it, and nothing is
\* returned; in every other case it returns an object with format,
\* totalLines, parsedEntries and summary.
C19_ErrorOrCompleteResult ==
    ppc = "done" =>
        IF ~file.readable \/ format \notin Formats
        THEN /\ parseOut.kind = "throw"
             /\ parseOut.message[1] = "Failed to parse log file:"
             /\ file.readable => parseOut.message[2] = <<"Unsupported log format:", format>>
        ELSE /\ parseOut.kind = "return"
             /\ CompleteResult(parseOut.value)

----------------------------------------------------------------------------
(* generateSummary: the time range *)

\* Files of up to MaxDated lines, each line with the date of its event.
MaxDated == 4
DatedFiles ==
    { [readable |-> TRUE, content |-> c] :
          c \in SeqsUpTo({Ln.D1Line, Ln.D2Line, Ln.D5Line}, MaxDated) }

\* The backend parses a dated file and summarises its entries.
InitSummary ==
    /\ InitParser(DatedFiles, {"auto"})
    /\ impl = "backend"

SpecSummary == InitSummary /\ [][ParseLogFile]_vars

\* The place of an instant in time.
InstantRank(instant) == CHOOSE k \in DOMAIN Instants : Instants[k] = instant

\* C20: the summary that parseLogFile returns has as time_range.start the
\* earliest and as time_range.end the latest timestamp of the entries, in
\* whatever order the entries stand, and null for both when there is no entry.
C20_TimeRangeIsMinMax ==
    (ppc = "done" /\ parseOut.kind = "return") =>
        LET range == parseOut.value.summary.time_range
            stamps == { parsedEntries[k].timestamp : k \in DOMAIN parsedEntries }
        IN  IF parsedEntries = <<>>
            THEN range.start = "null" /\ range.end = "null"
            ELSE /\ range.start \in stamps
                 /\ range.end \in stamps
                 /\ \A t \in stamps : /\ InstantRank(range.start) <= InstantRank(t)
                                      /\ InstantRank(t) <= InstantRank(range.end)

----------------------------------------------------------------------------
(* Tier 1: a reply that is a JSON object *)

\* The value that the specification gives a field missing from the object.
SpecifiedDefault(f) ==
    CASE f = "status" -> "normal"
      [] f = "confidence_score" -> 50
      [] f = "threat_level" -> "low"
      [] f = "recommended_action" -> "Monitor"

\* C21: when Tier 1 has returned from a reply whose content JSON.parse reads
\* as an object, each of status, confidence_score, threat_level and
\* recommended_action of the result is the object's value when the object
\* has the field, and otherwise 'normal', 0.5, 'low' and 'Monitor'.
C21_JsonFieldsKeptOrDefaulted ==
    (/\ pc = "done"
     /\ calls = <<"openai">>
     /\ replyOpenAI # <<>>
     /\ replyOpenAI[1].kind = "content"
     /\ replyOpenAI[1].json # <<>>) =>
        LET parsed == replyOpenAI[1].json[1] IN
        \A f \in {"status", "confidence_score", "threat_level", "recommended_action"} :
            IF f \in DOMAIN parsed THEN out[1][f] = parsed[f]
            ELSE out[1][f] = SpecifiedDefault(f)

----------------------------------------------------------------------------
(* Tier 1: a reply that is not JSON *)

\* The result has the status, confidence and threat level of the object.
TakenFrom(result, obj) ==
    /\ result.status = StrOr(obj, "status", "normal")
    /\ result.confidence_score = NumOr(obj, "confidence_score", 50)
    /\ result.threat_level = StrOr(obj, "threat_level", "low")

\* C22: when Tier 1 has returned from a content that is not JSON, the result
\* comes from the fenced JSON block when there is one that parses, otherwise
\* from the brace-delimited substring when that parses, and otherwise from
\* the keywords: status and threat_level are raised exactly when 'anomaly' or
\* 'suspicious' occurs in the text, and confidence_score is 0.7 in both cases.
C22_RecoveryPassesThenKeywords ==
    (/\ pc = "done"
     /\ calls = <<"openai">>
     /\ replyOpenAI # <<>>
     /\ replyOpenAI[1].kind = "content"
     /\ replyOpenAI[1].json = <<>>) =>
        LET r == replyOpenAI[1]
            keyword == "anomaly" \in r.words \/ "suspicious" \in r.words
        IN  IF r.fencedFound /\ r.fencedObject # <<>>
            THEN TakenFrom(out[1], r.fencedObject[1])
            ELSE IF r.bracesFound /\ r.bracesObject # <<>>
            THEN TakenFrom(out[1], r.bracesObject[1])
            ELSE /\ out[1].confidence_score = 70
                 /\ keyword <=> out[1].status # "normal"
                 /\ keyword <=> out[1].threat_level # "low"

----------------------------------------------------------------------------
(* Tier 2: the threat level *)

\* The candidate label that stands for an attack: 'malicious' in the backend's
\* request, 'anomaly' in the serverless one.
AttackLabel == IF impl = "backend" THEN "malicious" ELSE "anomaly"

\* C23: when Tier 2 has returned from labels[0] = L and scores[0] = s, the
\* result's confidence_score is s, and its threat_level is high for the
\* attack label with s > 0.7, medium for suspicious with s > 0.6, and low in
\* every other case.
C23_ThreatLevelFromLabelAndScore ==
    (/\ pc = "done"
     /\ calls # <<>>
     /\ calls[Len(calls)] = "huggingface"
     /\ replyHF # <<>>
     /\ replyHF[1].kind = "labels") =>
        LET L == replyHF[1].label
            score == replyHF[1].score
        IN  /\ out[1].confidence_score = score
            /\ out[1].threat_level =
                   IF L = AttackLabel /\ score > 70 THEN "high"
                   ELSE IF L = "suspicious" /\ score > 60 THEN "medium"
                   ELSE "low"

----------------------------------------------------------------------------
(* The line parsers: the shape of a line *)

\* The line has the shape that the parser of the format expects: eight
\* comma-separated fields, or a match of the format's regular expression.
Shape(fmt, line) ==
    CASE fmt = "zscaler" -> Len(Split(line)) >= 8
      [] fmt = "apache" -> ApacheMatch(line) # <<>>
      [] fmt = "nginx" ->
             IF impl = "backend" THEN NginxMatch(line) # <<>> ELSE ApacheMatch(line) # <<>>
      [] fmt = "linux" ->
             IF impl = "backend" THEN LinuxMatch(line) # <<>>
             ELSE LinuxMatchServerless(line) # <<>>

\* The text s occurs in the description.
Mentions(description, s) == s = "" \/ \E i \in DOMAIN description : description[i] = s

\* The entries are those of the lines of the expected shape, in order, and
\* the k-th entry of a ZScaler file has IpOf(fields) as its ip_address.
ShapedLinesParsed(IpOf(_)) ==
    (ppc = "done" /\ parseOut.kind = "return" /\ format \in {"zscaler", "apache", "nginx", "linux"}) =>
        LET shaped == { k \in DOMAIN lines : Shape(format, lines[k]) } IN
        /\ Len(parsedEntries) = Cardinality(shaped)
        /\ \A k \in DOMAIN parsedEntries :
               LET line == lines[Nth(shaped, k)]
                   parts == Split(line)
                   e == parsedEntries[k]
               IN  /\ e.raw_log_line = line
                   /\ format = "zscaler" =>
                          /\ e.ip_address = IpOf(parts)
                          /\ Mentions(e.event_description, Part(parts, 3))
                          /\ Mentions(e.event_description, Part(parts, 4))
                          /\ Mentions(e.event_description, Part(parts, 5))

\* The second field, and what stands for it when it is empty.
SecondField(parts) == Part(parts, 1)
SecondFieldOrDefault(parts) ==
    IF Part(parts, 1) # "" THEN Part(parts, 1)
    ELSE IF impl = "backend" THEN "" ELSE "unknown"

\* C24 as stated: the ZScaler parser gives null exactly for a line of fewer
\* than eight comma-separated fields, and for a line of eight fields an entry
\* whose ip_address is the second field and whose event_description contains
\* the fourth, fifth and sixth field; the Apache, Nginx and Linux parsers
\* give null exactly when the regular expression of the format does not match.
C24_IpIsSecondField == ShapedLinesParsed(SecondField)

\* C24: as above, with the ip_address being the second field when that
\* field is not empty; for an empty second field it is the empty string
\* (backend) or 'unknown' (serverless).
C24_NullIffShapeFails == ShapedLinesParsed(SecondFieldOrDefault)

\* A serverless ZScaler file with a line of eight fields whose second field
\* is empty and a line of five fields: one entry, from 'unknown'.
C24_Witness ==
    /\ ppc = "done"
    /\ impl = "serverless"
    /\ file.content = <<Ln.ZEmpty, Ln.ZShort>>
    /\ format = "zscaler"
    /\ Len(parsedEntries) = 1
    /\ parsedEntries[1].ip_address = "unknown"
    /\ parsedEntries[1].raw_log_line = Ln.ZEmpty

----------------------------------------------------------------------------
(* analyzeBatch: the inputs are only read *)

ParsedFields == {"timestamp", "ip_address", "event_description", "raw_log_line", "log_type"}

\* C26: analyzeBatch and the tiers only read the entries and the context.
\* Every input is one of the entries as they were given, the entry that the
\* tiers work on is the last input taken, the context consists of the first
\* inputs unchanged, and in every output the fields timestamp, ip_address,
\* event_description, raw_log_line and log_type are those of the input at
\* the same position.
C26_InputsOnlyRead ==
    /\ \A k \in DOMAIN entries : entries[k] \in BatchEntries
    /\ entries # <<>> => entry = entries[Len(entries)]
    /\ Len(context) <= Len(entries)
    /\ \A k \in DOMAIN context : context[k] = entries[k]
    /\ Len(results) <= Len(entries)
    /\ \A k \in DOMAIN results : \A f \in ParsedFields :
           f \in DOMAIN results[k] /\ results[k][f] = entries[k][f]

\* A batch of two different entries returned by an analyzer with the
\* HuggingFace key only: the first output carries the verdict of the
\* classifier and the parsed fields of the first input.
C26_Witness ==
    /\ pc = "returned"
    /\ ~useOpenAI
    /\ useHuggingFace
    /\ Len(results) = 2
    /\ entries[1] # entries[2]
    /\ results[1].threat_level = "high"
    /\ \A k \in {1, 2} : \A f \in ParsedFields : results[k][f] = entries[k][f]
    /\ context = entries

----------------------------------------------------------------------------
(* parseLogFile: line numbers *)

\* The positions in the file of its non-blank lines.
NonBlankPositions == { n \in DOMAIN file.content : ~IsBlank(file.content[n]) }

\* C27: in a result of the backend's parseLogFile the line_number of an
\* entry is the number, counted from 1, of its source line in the file,
\* blank lines counted, and the line numbers increase strictly along
\* parsedEntries.
C27_LineNumberIsFileLine ==
    (ppc = "done" /\ impl = "backend" /\ parseOut.kind = "return" /\ format \in Formats) =>
        LET accepted == Accepted(format, lines) IN
        \A k \in DOMAIN parsedEntries :
            /\ parsedEntries[k].line_number = Nth(NonBlankPositions, Nth(accepted, k))
            /\ k > 1 => parsedEntries[k - 1].line_number < parsedEntries[k].line_number

----------------------------------------------------------------------------
(* detectLogFormat and the line parsers *)

\* C28: detection and parsing agree. When parseLogFile has parsed a file with
\* the format that detectLogFormat gives for it, and the format is not
\* generic, every sample line that satisfies the detection rule of the format
\* has an entry, so the file has at least one parsed entry.
C28_DetectedLineIsParsed ==
    (/\ ppc = "done"
     /\ parseOut.kind = "return"
     /\ format \in {"zscaler", "apache", "nginx", "windows", "linux"}
     /\ format = detectLogFormat(lines)) =>
        LET sample == Slice(lines, SampleSize) IN
        /\ \A k \in DOMAIN sample :
               RuleMatches(format, sample[k]) =>
                   \E j \in DOMAIN parsedEntries : parsedEntries[j].raw_log_line = sample[k]
        /\ parsedEntries # <<>>

----------------------------------------------------------------------------
(* AnalysisResult: status and threat_level *)

\* status and threat_level of an analysis go together.
Agree(a) ==
    /\ {"status", "threat_level"} \subseteq DOMAIN a
    /\ CASE a.status = "normal" -> a.threat_level = "low"
         [] a.status = "suspicious" -> a.threat_level = "medium"
         [] a.status = "anomaly" -> a.threat_level \in {"high", "critical"}
         [] OTHER -> FALSE

\* The labels that the zero-shot request offers to the classifier.
CandidateLabels ==
    IF impl = "backend" THEN {"normal", "suspicious", "malicious", "error"}
    ELSE {"normal", "suspicious", "anomaly"}

\* The remote answer that the result was made from is in the domain: the
\* rule engine has no remote answer; the classifier answered one of the
\* offered labels with a score up to 1; the completion is text, or a JSON
\* object whose own status and threat_level go together.
InDomainAnswer ==
    LET tier == calls[Len(calls)] IN
    CASE tier = "rules" -> TRUE
      [] tier = "huggingface" ->
             /\ replyHF # <<>>
             /\ replyHF[1].kind = "labels"
             /\ replyHF[1].label \in CandidateLabels
             /\ replyHF[1].score <= 100
      [] tier = "openai" ->
             /\ replyOpenAI # <<>>
             /\ replyOpenAI[1].kind = "content"
             /\ replyOpenAI[1].json # <<>> => Agree(replyOpenAI[1].json[1])
             /\ replyOpenAI[1].fencedObject # <<>> => Agree(replyOpenAI[1].fencedObject[1])
             /\ replyOpenAI[1].bracesObject # <<>> => Agree(replyOpenAI[1].bracesObject[1])

\* C29: in every result that analyzeLogEntry / analyzeLogs returns from an
\* in-domain remote answer, whichever tier or recovery path made it, status
\* normal comes with threat_level low, suspicious with medium, and anomaly
\* with high or critical.
C29_StatusAndThreatAgree ==
    (pc = "done" /\ ~thrown /\ out # <<>> /\ calls # <<>> /\ InDomainAnswer) => Agree(out[1])

----------------------------------------------------------------------------
(* The serverless upload handler: the status of the file *)

\* C30: in the serverless upload handler the log_files row has the status
\* 'analyzed' only when a log_entries row has been inserted for every parsed
\* entry of the file, and the success is answered only then; when the insert
\* of an entry has failed, the status is still 'uploaded' and the answer is
\* an error, in whatever order the analyses and inserts of the entries end.
C30_AnalyzedOnlyWhenAllStored ==
    /\ fileStatus = "analyzed" =>
           /\ Len(rows) = Len(entries)
           /\ \A k \in DOMAIN entries :
                  /\ tasks[k].pc = "stored"
                  /\ \E n \in DOMAIN rows : rows[n] = Row(entries[k], tasks[k].out[1])
    /\ response = 201 => fileStatus = "analyzed"
    /\ (\E k \in DOMAIN tasks : tasks[k].pc = "failed") =>
           /\ fileStatus = "uploaded"
           /\ handler = "responded"
           /\ response = 500

\* Two different entries whose inserts ended in the reverse order, the
\* first after a failed completion request: both rows are there, the file
\* is analyzed and the answer is 201.
C30_Witness ==
    /\ fileStatus = "analyzed"
    /\ response = 201
    /\ Len(entries) = 2
    /\ entries[1] # entries[2]
    /\ Len(rows) = 2
    /\ rows[1].raw_log_line = entries[2].raw_log_line
    /\ rows[2].raw_log_line = entries[1].raw_log_line
    /\ tasks[1].calls = <<"openai", "rules">>

====
